---- MODULE Spec2Model ----
(***************************************************************************)
(* Sentiment trend change-point detection: the window aggregation, the     *)
(* four detectors (Simple, CUSUM, Z-score, Bayesian), the TrendAnalyzer    *)
(* orchestrator with its alert generation, and the trend service.          *)
(*                                                                         *)
(* Numbers.  The code computes in float64.  The model computes in exact    *)
(* rationals [n, d] (d > 0, lowest terms); a score s is held as the        *)
(* rational One * s, i.e. in tenths.  [n |-> 0, d |-> 0] is NaN, the value *)
(* numpy gives the mean of an empty slice.  Timestamps are whole minutes.  *)
(***************************************************************************)
EXTENDS Integers, Sequences, FiniteSets, TLC

VARIABLES
    data,           \* sentiment_data: the caller's list of score records
    op,             \* the operation that ran last on data ("none" before any)
    detector,       \* the change detector object of the last call (its fields)
    df_grouped,     \* SimpleChangeDetector.detect_changes: df_grouped
    change_points,  \* the list the caller's detect_changes call returned
    aggregated_df,  \* analyze_trend: aggregated_df
    change_points_data, \* analyze_trend: change_points_data
    analyzer,       \* the TrendAnalyzer object of the last call (its fields)
    trend_result,   \* the dictionary analyze_trend returned
    service_result, \* the dictionary analyze_trend_with_change_points returned
    score_list,     \* get_trend_direction: the list of scores it is given
    trend_direction, \* get_trend_direction: the string it returned
    calls,          \* the detect_changes calls made on one detector object
    invocations,    \* the analyze_trend invocations in progress, by keyword
    triple,         \* a (positive, negative, neutral) triple to scalarize
    scalars,        \* what each scalarization returned for it
    retry,          \* RateLimiter.retry_with_backoff: one call in progress
    collection,     \* run_data_collection / collect_all: one call in progress
    dedup           \* Deduplicator.remove_duplicates: its input and results

vars == <<data, op, detector, df_grouped, change_points, aggregated_df,
          change_points_data, analyzer, trend_result, service_result,
          score_list, trend_direction, calls, invocations,
          triple, scalars, retry, collection, dedup>>

\* the state of the stand-alone runs: of get_trend_direction, of repeated
\* calls on one detector, of concurrent invocations
standalone == <<score_list, trend_direction, calls, invocations>>

\* the state of the components outside the trend analysis: the
\* scalarizations side by side, the collectors, the preprocessing
components == <<triple, scalars, retry, collection, dedup>>

\* the state of the trend analysis
trend == <<data, op, detector, df_grouped, change_points, aggregated_df,
           change_points_data, analyzer, trend_result, service_result,
           score_list, trend_direction, calls, invocations>>

\* everything but the input list
results == <<op, detector, df_grouped, change_points, aggregated_df,
             change_points_data, analyzer, trend_result, service_result>>

\* what analyze_trend computes
analysis == <<aggregated_df, change_points_data, analyzer, trend_result,
              service_result>>

----------------------------------------------------------------------------
(* Bounds of the model *)

MaxLen == 3         \* longest unordered input list
MaxSeries == 6      \* longest one-sample-per-minute series
MaxStart == 19      \* latest start minute of the end-to-end scenario

----------------------------------------------------------------------------
(* float arithmetic, as exact rationals *)

One == 10           \* the score 1.0

Abs(x) == IF x < 0 THEN -x ELSE x

RECURSIVE GCD(_, _)
GCD(a, b) == IF b = 0 THEN a ELSE GCD(b, a % b)

NaN == [n |-> 0, d |-> 0]

R(n, d) ==
    IF d = 0 THEN NaN
    ELSE LET g == GCD(Abs(n), Abs(d))
             s == IF d < 0 THEN -1 ELSE 1
         IN  [n |-> (s * n) \div g, d |-> (s * d) \div g]

IsNaN(a) == a.d = 0

RAdd(a, b) == R(a.n * b.d + b.n * a.d, a.d * b.d)
RSub(a, b) == R(a.n * b.d - b.n * a.d, a.d * b.d)
RMul(a, b) == R(a.n * b.n, a.d * b.d)
RDiv(a, b) == R(a.n * b.d, a.d * b.n)
RAbs(a) == [n |-> Abs(a.n), d |-> a.d]
\* comparisons with NaN are false
RLt(a, b) == ~IsNaN(a) /\ ~IsNaN(b) /\ a.n * b.d < b.n * a.d
RGt(a, b) == RLt(b, a)
RLe(a, b) == ~IsNaN(a) /\ ~IsNaN(b) /\ a.n * b.d <= b.n * a.d
RGe(a, b) == RLe(b, a)

RECURSIVE RSum(_)
RSum(s) == IF s = <<>> THEN R(0, 1) ELSE RAdd(Head(s), RSum(Tail(s)))

\* np.mean / pandas mean: NaN for no values
Mean(s) == IF s = <<>> THEN NaN ELSE RMul(RSum(s), R(1, Len(s)))

\* sum of squared deviations from the mean
SumSqDev(s) ==
    LET m == Mean(s)
    IN  RSum([i \in 1..Len(s) |-> RMul(RSub(s[i], m), RSub(s[i], m))])

\* a quotient num / (den + eps * 1e-8), kept unevaluated
Quot(num, den, eps) == [num |-> num, den |-> den, eps |-> eps]

RECURSIVE SortedSeq(_)
SortedSeq(S) ==
    IF S = {} THEN <<>>
    ELSE LET m == CHOOSE x \in S : \A y \in S : x <= y
         IN  <<m>> \o SortedSeq(S \ {m})

\* pd.Timestamp.isoformat and datetime.fromisoformat, on whole minutes
IsoFormat(t) == <<"iso", t>>
FromIsoFormat(s) == s[2]

----------------------------------------------------------------------------
(* Inputs *)

\* the score triples (positive, negative, neutral) of the unordered lists,
\* in tenths, and their timestamps
Triples == {<<8, 0, 2>>, <<1, 9, 0>>}
Minutes == 0..2

Sample(t, tr) ==
    [analyzed_at |-> t, positive_score |-> tr[1],
     negative_score |-> tr[2], neutral_score |-> tr[3]]

\* pd.DataFrame(sentiment_data): the scores become floats
ToFrame(sentiment_data) ==
    [i \in 1..Len(sentiment_data) |->
        [analyzed_at |-> sentiment_data[i].analyzed_at,
         positive_score |-> R(sentiment_data[i].positive_score, 1),
         negative_score |-> R(sentiment_data[i].negative_score, 1),
         neutral_score |-> R(sentiment_data[i].neutral_score, 1)]]

----------------------------------------------------------------------------
(* SimpleChangeDetector *)

SimpleThresholds == {R(3, 10), R(1, 1)}
SimpleWindows == {1, 2}
DefaultWindowMinutes == 10
DefaultThreshold == R(3, 10)

SimpleChangeDetector(window_minutes, threshold) ==
    [kind |-> "simple", window_minutes |-> window_minutes, threshold |-> threshold]

CalculateSentimentScore(positive, negative, neutral) ==
    RAdd(RAdd(RMul(positive, R(1, 1)), RMul(neutral, R(0, 1))),
         RMul(negative, R(-1, 1)))

\* TimeSeriesAnalyzer.calculate_sentiment_score
AnalyzerCalculateSentimentScore(positive, negative, neutral) ==
    RAdd(RAdd(RMul(positive, R(1, 1)), RMul(neutral, R(0, 1))),
         RMul(negative, R(-1, 1)))

CusumCalculateSentimentScore_Weighted(positive, negative, neutral) ==
    RAdd(RAdd(RMul(positive, R(1, 1)), RMul(neutral, R(1, 2))),
         RMul(negative, R(-1, 1)))

\* CUSUMDetector._calculate_sentiment_score
CusumCalculateSentimentScore(positive, negative, neutral) ==
    RAdd(RAdd(RMul(positive, R(1, 1)), RMul(neutral, R(0, 1))),
         RMul(negative, R(-1, 1)))

\* ZScoreDetector._calculate_sentiment_score
ZScoreCalculateSentimentScore(positive, negative, neutral) ==
    RAdd(RAdd(RMul(positive, R(1, 1)), RMul(neutral, R(0, 1))),
         RMul(negative, R(-1, 1)))

\* BayesianChangeDetector._calculate_sentiment_score
BayesianCalculateSentimentScore(positive, negative, neutral) ==
    RAdd(RAdd(RMul(positive, R(1, 1)), RMul(neutral, R(0, 1))),
         RMul(negative, R(-1, 1)))

WithScore(df) ==
    [i \in 1..Len(df) |->
        [analyzed_at |-> df[i].analyzed_at,
         sentiment_score |-> CalculateSentimentScore(
             df[i].positive_score, df[i].negative_score, df[i].neutral_score)]]

FloorTime_Nearest(t, w) == ((t + w \div 2) \div w) * w

\* Series.dt.floor(f'{w}min')
FloorTime_Ceiling(t, w) == ((t + w - 1) \div w) * w

FloorTime(t, w) == (t \div w) * w

RECURSIVE WindowScores_UpTo(_, _, _)
WindowScores_UpTo(df, w, tw) ==
    IF df = <<>> THEN <<>>
    ELSE (IF FloorTime(Head(df).analyzed_at, w) <= tw
          THEN <<Head(df).sentiment_score>> ELSE <<>>)
         \o WindowScores_UpTo(Tail(df), w, tw)

\* the scores of the rows of df that fall in window tw, in row order
RECURSIVE WindowScores(_, _, _)
WindowScores(df, w, tw) ==
    IF df = <<>> THEN <<>>
    ELSE (IF FloorTime(Head(df).analyzed_at, w) = tw
          THEN <<Head(df).sentiment_score>> ELSE <<>>)
         \o WindowScores(Tail(df), w, tw)

\* groupby('time_window').agg(mean, std, count), then fillna(0): one row per
\* distinct time_window, ascending; std is the sample deviation (ddof = 1),
\* kept as its square, and is NaN -> 0 for a single row
AggregateByWindow(df, w) ==
    LET keys == SortedSeq({FloorTime(df[i].analyzed_at, w) : i \in 1..Len(df)})
    IN  [k \in 1..Len(keys) |->
            LET xs == WindowScores(df, w, keys[k])
            IN  [time_window |-> keys[k],
                 mean_sentiment |-> Mean(xs),
                 std_sentiment_sq |->
                     IF Len(xs) < 2 THEN R(0, 1)
                     ELSE RMul(SumSqDev(xs), R(1, Len(xs) - 1)),
                 count |-> Len(xs)]]

\* abs(prev_score) > 0.01
PrevAwayFromZero(prev_score) == RGt(RAbs(prev_score), R(One, 100))

SimpleChangeRate(prev_score, curr_score) ==
    IF PrevAwayFromZero(prev_score)
    THEN Quot(RAbs(RSub(curr_score, prev_score)), RAbs(prev_score), 0)
    ELSE Quot(RAbs(RSub(curr_score, prev_score)), R(One, 1), 0)

QuotExceeds_AtLeast(q, threshold) == RGe(q.num, RMul(threshold, q.den))

\* change_rate > self.threshold, for a quotient with a positive denominator
QuotExceeds(q, threshold) == RGt(q.num, RMul(threshold, q.den))

SimpleChangeType(prev_score, curr_score) ==
    IF RGt(curr_score, prev_score) THEN "increase" ELSE "decrease"

RECURSIVE SimpleLoop(_, _, _)
SimpleLoop(grouped, threshold, i) ==
    IF i > Len(grouped) THEN <<>>
    ELSE LET prev_score == grouped[i - 1].mean_sentiment
             curr_score == grouped[i].mean_sentiment
             prev_time == grouped[i - 1].time_window
             curr_time == grouped[i].time_window
             change_rate == SimpleChangeRate(prev_score, curr_score)
         IN  (IF QuotExceeds(change_rate, threshold)
              THEN <<[change_point |-> IsoFormat(curr_time),
                      previous_score |-> prev_score,
                      current_score |-> curr_score,
                      change_rate |-> change_rate,
                      change_type |-> SimpleChangeType(prev_score, curr_score),
                      window_start |-> IsoFormat(prev_time),
                      window_end |-> IsoFormat(curr_time)]>>
              ELSE <<>>)
             \o SimpleLoop(grouped, threshold, i + 1)

\* detect_changes of the Simple detector on a frame; also its df_grouped
SimpleDetectFrame(self, df) ==
    IF Len(df) < 2 THEN [grouped |-> <<>>, change_points |-> <<>>]
    ELSE LET grouped == AggregateByWindow(WithScore(df), self.window_minutes)
         IN  [grouped |-> grouped,
              change_points |->
                  IF Len(grouped) < 2 THEN <<>>
                  ELSE SimpleLoop(grouped, self.threshold, 2)]

----------------------------------------------------------------------------
(* What the three advanced detectors share *)

\* s[a:b], a Python slice with 0 <= a and 0 <= b
Slice(s, a, b) == SubSeq(s, a + 1, b)

Max(a, b) == IF a > b THEN a ELSE b
Min(a, b) == IF a < b THEN a ELSE b

\* df.sort_values('analyzed_at'): rows in ascending timestamp order, rows of
\* equal timestamp in their input order (numpy sorts arrays this short by
\* insertion)
RECURSIVE InsertRow(_, _)
InsertRow(sorted, row) ==
    IF sorted = <<>> THEN <<row>>
    ELSE IF sorted[Len(sorted)].analyzed_at <= row.analyzed_at
         THEN Append(sorted, row)
         ELSE Append(InsertRow(SubSeq(sorted, 1, Len(sorted) - 1), row),
                     sorted[Len(sorted)])

RECURSIVE SortValues(_)
SortValues(df) ==
    IF df = <<>> THEN <<>>
    ELSE InsertRow(SortValues(SubSeq(df, 1, Len(df) - 1)), df[Len(df)])

\* df['sentiment_score'].values and df['analyzed_at'].values of the sorted frame
ScoreValues(df) ==
    LET sorted == WithScore(SortValues(df))
    IN  [i \in 1..Len(sorted) |-> sorted[i].sentiment_score]

Timestamps(df) ==
    LET sorted == SortValues(df)
    IN  [i \in 1..Len(sorted) |-> sorted[i].analyzed_at]

BelowEps_Never(sum_sq_dev) == FALSE

BelowEps_Negative(sum_sq_dev) == sum_sq_dev.n < 0

\* np.std(values) < 1e-8 and np.var(values) < 1e-8, given the sum of squared
\* deviations: scores are multiples of a grid step far above 1e-8, so the
\* deviation is below 1e-8 exactly when it is zero
BelowEps(sum_sq_dev) == sum_sq_dev.n = 0

\* abs(curr - prev) / (abs(prev) + 1e-8)
RelativeChange(prev_score, curr_score) ==
    Quot(RAbs(RSub(curr_score, prev_score)), RAbs(prev_score), 1)

----------------------------------------------------------------------------
(* CUSUMDetector *)

CusumThresholds == {R(-1, 1), R(0, 1), R(1, 1)}
CusumDrifts == {R(0, 1), R(1, 2)}
DefaultCusumThreshold == R(5, 1)
DefaultCusumDrift == R(1, 2)
CusumContext == 5

CUSUMDetector(threshold, drift) ==
    [kind |-> "cusum", threshold |-> threshold, drift |-> drift]

\* A CUSUM statistic is kept as [dev, steps]: the value dev / std - steps * drift,
\* where dev is a sum of deviations (values[j] - mean) and std = np.std(values)
\* is sqrt(ssd / n).  StatExceeds decides  dev / std - steps * drift > c.
StatExceeds(stat, drift, c, ssd, n) ==
    LET q == RAdd(c, RMul(R(stat.steps, 1), drift))
        lhs == RMul(RMul(stat.dev, stat.dev), R(n, 1))     \* (dev / std)^2 * ssd
        rhs == RMul(RMul(q, q), ssd)                        \* q^2 * ssd
    IN  IF q.n < 0
        THEN stat.dev.n >= 0 \/ RLt(lhs, rhs)
        ELSE stat.dev.n > 0 /\ RGt(lhs, rhs)

ZeroStat == [dev |-> R(0, 1), steps |-> 0]

CusumStep_NoFloor(prev, x_dev, drift, ssd, n) ==
    [dev |-> RAdd(prev.dev, x_dev), steps |-> prev.steps + 1]

\* max(0, S[i-1] + x - drift), x = sign * normalized[i]; with std = 0 the
\* normalized values are NaN and max(0, nan) is 0
CusumStep(prev, x_dev, drift, ssd, n) ==
    LET next == [dev |-> RAdd(prev.dev, x_dev), steps |-> prev.steps + 1]
    IN  IF ~BelowEps(ssd) /\ StatExceeds(next, drift, R(0, 1), ssd, n)
        THEN next ELSE ZeroStat

\* S_plus (sign = 1) or S_minus (sign = -1) at the Python indices 0..i,
\* given devs[j] = values[j] - mean
RECURSIVE CusumStats(_, _, _, _, _)
CusumStats(devs, drift, sign, ssd, i) ==
    IF i = 0 THEN <<ZeroStat>>
    ELSE LET S == CusumStats(devs, drift, sign, ssd, i - 1)
         IN  Append(S, CusumStep(S[i], RMul(R(sign, 1), devs[i + 1]),
                                 drift, ssd, Len(devs)))

CusumPoint(self, values, timestamps, ssd, S_plus, S_minus, i) ==
    LET n == Len(values)
        up == StatExceeds(S_plus[i + 1], self.drift, self.threshold, ssd, n)
        down == StatExceeds(S_minus[i + 1], self.drift, self.threshold, ssd, n)
        prev_idx == Max(0, i - CusumContext)
        curr_idx == Min(n - 1, i + CusumContext)
        prev_score == Mean(Slice(values, prev_idx, i))
        curr_score == Mean(Slice(values, i, curr_idx))
    IN  IF up \/ down
        THEN <<[change_point |-> IsoFormat(timestamps[i + 1]),
                previous_score |-> prev_score,
                current_score |-> curr_score,
                change_rate |-> RelativeChange(prev_score, curr_score),
                change_type |-> IF up THEN "increase" ELSE "decrease",
                change_magnitude |-> IF up THEN S_plus[i + 1] ELSE S_minus[i + 1],
                method |-> "CUSUM"]>>
        ELSE <<>>

RECURSIVE CusumLoop(_, _, _, _, _, _, _)
CusumLoop(self, values, timestamps, ssd, S_plus, S_minus, i) ==
    IF i >= Len(values) THEN <<>>
    ELSE CusumPoint(self, values, timestamps, ssd, S_plus, S_minus, i)
         \o CusumLoop(self, values, timestamps, ssd, S_plus, S_minus, i + 1)

CusumDetect(self, values, timestamps) ==
    IF Len(values) < 3 THEN <<>>
    ELSE LET n == Len(values)
             mean == Mean(values)
             devs == [j \in 1..n |-> RSub(values[j], mean)]
             ssd == RSum([j \in 1..n |-> RMul(devs[j], devs[j])])
         IN  IF BelowEps(ssd) THEN <<>>
             ELSE CusumLoop(self, values, timestamps, ssd,
                            CusumStats(devs, self.drift, 1, ssd, n - 1),
                            CusumStats(devs, self.drift, -1, ssd, n - 1), 1)

CusumDetectFrame(self, df) ==
    IF Len(df) < 3 THEN <<>>
    ELSE CusumDetect(self, ScoreValues(df), Timestamps(df))

----------------------------------------------------------------------------
(* ZScoreDetector *)

ZThresholds == {R(-1, 1), R(1, 1)}
ZWindowSizes == {1, 2}
DefaultZThreshold == R(5, 2)
DefaultZWindowSize == 10

ZScoreDetector(z_threshold, window_size) ==
    [kind |-> "zscore", z_threshold |-> z_threshold, window_size |-> window_size]

ZExceeds_AtLeast(z_sq, z_threshold) ==
    z_threshold.n < 0 \/ RGe(z_sq, RMul(z_threshold, z_threshold))

\* abs(curr_mean - prev_mean) / prev_std > z_threshold, with the z-score kept
\* as its square (curr_mean - prev_mean)^2 / np.var(prev_window)
ZExceeds(z_sq, z_threshold) ==
    z_threshold.n < 0 \/ RGt(z_sq, RMul(z_threshold, z_threshold))

ZScorePoint(self, values, timestamps, i) ==
    LET w == self.window_size
        prev_window == Slice(values, i - w, i)
        prev_mean == Mean(prev_window)
        prev_ssd == SumSqDev(prev_window)
        curr_window == Slice(values, i, i + w)
        curr_mean == Mean(curr_window)
        diff == RSub(curr_mean, prev_mean)
        z_sq == RDiv(RMul(RMul(diff, diff), R(Len(prev_window), 1)), prev_ssd)
    IN  IF BelowEps(prev_ssd) THEN <<>>
        ELSE IF ZExceeds(z_sq, self.z_threshold)
        THEN <<[change_point |-> IsoFormat(timestamps[i + 1]),
                previous_score |-> prev_mean,
                current_score |-> curr_mean,
                change_rate |-> RelativeChange(prev_mean, curr_mean),
                change_type |-> IF RGt(curr_mean, prev_mean)
                                THEN "increase" ELSE "decrease",
                z_score |-> [sq |-> z_sq],
                method |-> "Z-score"]>>
        ELSE <<>>

RECURSIVE ZScoreLoop(_, _, _, _)
ZScoreLoop(self, values, timestamps, i) ==
    IF i >= Len(values) - self.window_size THEN <<>>
    ELSE ZScorePoint(self, values, timestamps, i)
         \o ZScoreLoop(self, values, timestamps, i + 1)

ZScoreDetect(self, values, timestamps) ==
    IF Len(values) < self.window_size + 1 THEN <<>>
    ELSE ZScoreLoop(self, values, timestamps, self.window_size)

ZScoreDetectFrame(self, df) ==
    IF Len(df) < self.window_size + 1 THEN <<>>
    ELSE ZScoreDetect(self, ScoreValues(df), Timestamps(df))

----------------------------------------------------------------------------
(* BayesianChangeDetector *)

Priors == {R(1, 100), R(1, 4)}
SegmentLengths == {1, 2}
DefaultPrior == R(1, 100)
DefaultMinSegmentLength == 5

BayesianChangeDetector(prior_probability, min_segment_length) ==
    [kind |-> "bayesian", prior_prob |-> prior_probability,
     min_segment_length |-> min_segment_length]

\* With likelihood = 1 / (1 + exp(-d)) and 0 < prior < 1/2,
\*     posterior = prior * L / (prior * L + (1 - prior) * (1 - L)) > 2 * prior
\* is  exp(d) > 2 * (1 - prior) / (1 - 2 * prior),  i.e.  d > ln(that);
\* for 1/2 <= prior < 1 no posterior exceeds 2 * prior.  The square of the
\* logarithm, to five decimals from below: ln(99/49)^2 = 0.49463.. for the
\* prior 0.01 and ln(3)^2 = 1.20694.. for the prior 0.25.
LogOddsSq(prior) ==
    IF prior = R(1, 100) THEN R(46, 93) ELSE R(35, 29)

\* probs[i] is kept as [d_sq]: the square of normalized_diff =
\* abs(next_mean - prev_mean) / (sqrt(overall_var) + 1e-8); [zero] is 0.0
ProbExceedsThreshold(prob, prior) ==
    /\ ~prob.zero
    /\ RLt(prior, R(1, 2))
    /\ RGt(prob.d_sq, LogOddsSq(prior))

ZeroProb == [zero |-> TRUE, d_sq |-> R(0, 1)]

CalculateChangeProbabilities(self, values) ==
    LET n == Len(values)
        m == self.min_segment_length
        overall_ssd == SumSqDev(values)
        overall_var == RMul(overall_ssd, R(1, n))
    IN  [k \in 1..n |->
            LET i == k - 1
            IN  IF BelowEps(overall_ssd) \/ i < m \/ i >= n - m THEN ZeroProb
                ELSE LET prev_mean == Mean(Slice(values, i - m, i))
                         next_mean == Mean(Slice(values, i, i + m))
                         mean_diff == RAbs(RSub(next_mean, prev_mean))
                     IN  [zero |-> FALSE,
                          d_sq |-> RDiv(RMul(mean_diff, mean_diff), overall_var)]]

\* np.where(change_probs > threshold)[0]: Python indices, ascending
RECURSIVE ChangeIndices(_, _, _)
ChangeIndices(probs, prior, i) ==
    IF i >= Len(probs) THEN <<>>
    ELSE (IF ProbExceedsThreshold(probs[i + 1], prior) THEN <<i>> ELSE <<>>)
         \o ChangeIndices(probs, prior, i + 1)

FarEnough_Adjacent(idx, last_idx, m) == idx - last_idx >= 1

FarEnough_Strict(idx, last_idx, m) == idx - last_idx > m

\* idx - last_idx >= self.min_segment_length
FarEnough(idx, last_idx, m) == idx - last_idx >= m

RECURSIVE FilterIndices(_, _, _)
FilterIndices(change_indices, last_idx, m) ==
    IF change_indices = <<>> THEN <<>>
    ELSE IF FarEnough(Head(change_indices), last_idx, m)
         THEN <<Head(change_indices)>>
              \o FilterIndices(Tail(change_indices), Head(change_indices), m)
         ELSE FilterIndices(Tail(change_indices), last_idx, m)

BayesianPoint(self, values, timestamps, probs, idx) ==
    LET n == Len(values)
        m == self.min_segment_length
        prev_score == Mean(Slice(values, Max(0, idx - m), idx))
        curr_score == Mean(Slice(values, idx, Min(n, idx + m)))
    IN  IF idx < m \/ idx >= n - m THEN <<>>
        ELSE <<[change_point |-> IsoFormat(timestamps[idx + 1]),
                previous_score |-> prev_score,
                current_score |-> curr_score,
                change_rate |-> RelativeChange(prev_score, curr_score),
                change_type |-> IF RGt(curr_score, prev_score)
                                THEN "increase" ELSE "decrease",
                posterior_probability |-> probs[idx + 1],
                method |-> "Bayesian"]>>

RECURSIVE BayesianPoints(_, _, _, _, _)
BayesianPoints(self, values, timestamps, probs, filtered) ==
    IF filtered = <<>> THEN <<>>
    ELSE BayesianPoint(self, values, timestamps, probs, Head(filtered))
         \o BayesianPoints(self, values, timestamps, probs, Tail(filtered))

BayesianDetect(self, values, timestamps) ==
    IF Len(values) < self.min_segment_length * 2 THEN <<>>
    ELSE LET probs == CalculateChangeProbabilities(self, values)
             change_indices == ChangeIndices(probs, self.prior_prob, 0)
             filtered == FilterIndices(change_indices, -self.min_segment_length,
                                       self.min_segment_length)
         IN  BayesianPoints(self, values, timestamps, probs, filtered)

BayesianDetectFrame(self, df) ==
    IF Len(df) < self.min_segment_length * 2 THEN <<>>
    ELSE BayesianDetect(self, ScoreValues(df), Timestamps(df))

\* detector.detect_changes(frame), whichever detector it is
DetectChanges(self, df) ==
    CASE self.kind = "simple" -> SimpleDetectFrame(self, df).change_points
      [] self.kind = "cusum" -> CusumDetectFrame(self, df)
      [] self.kind = "zscore" -> ZScoreDetectFrame(self, df)
      [] self.kind = "bayesian" -> BayesianDetectFrame(self, df)

----------------------------------------------------------------------------
(* TimeSeriesAnalyzer *)

AggregationWindows == {1, 2}

\* fillna(0)
FillNa(x) == IF IsNaN(x) THEN R(0, 1) ELSE x

\* the values of one column of the rows of df in the bin [bin, bin + w)
RECURSIVE BinColumn(_, _, _, _)
BinColumn(df, w, bin, column) ==
    IF df = <<>> THEN <<>>
    ELSE (IF FloorTime(Head(df).analyzed_at, w) = bin
          THEN <<Head(df)[column]>> ELSE <<>>)
         \o BinColumn(Tail(df), w, bin, column)

\* groupby(pd.Grouper(key='analyzed_at', freq=w)).agg(mean).reset_index(),
\* then fillna(0): the Grouper makes one bin per step of w from the bin of
\* the earliest timestamp to the bin of the latest, the mean of a bin with
\* no row is NaN, and fillna turns it into 0
AggregateSentiment(aggregation_window, sentiment_data) ==
    IF sentiment_data = <<>> THEN <<>>
    ELSE LET df == ToFrame(sentiment_data)
             w == aggregation_window
             bins == {FloorTime(df[i].analyzed_at, w) : i \in 1..Len(df)}
             first == CHOOSE b \in bins : \A c \in bins : b <= c
             last == CHOOSE b \in bins : \A c \in bins : c <= b
         IN  [k \in 1..((last - first) \div w + 1) |->
                LET bin == first + (k - 1) * w
                IN  [analyzed_at |-> bin,
                     positive_score |->
                         FillNa(Mean(BinColumn(df, w, bin, "positive_score"))),
                     negative_score |->
                         FillNa(Mean(BinColumn(df, w, bin, "negative_score"))),
                     neutral_score |->
                         FillNa(Mean(BinColumn(df, w, bin, "neutral_score")))]]

\* np.polyfit(np.arange(len(scores)), scores, 1)[0]: the least-squares slope
PolyfitSlope(scores) ==
    LET n == Len(scores)
        sx == RSum([i \in 1..n |-> R(i - 1, 1)])
        sxx == RSum([i \in 1..n |-> R((i - 1) * (i - 1), 1)])
        sy == RSum(scores)
        sxy == RSum([i \in 1..n |-> RMul(R(i - 1, 1), scores[i])])
    IN  RDiv(RSub(RMul(R(n, 1), sxy), RMul(sx, sy)),
             RSub(RMul(R(n, 1), sxx), RMul(sx, sx)))

GetTrendDirection_Inclusive(scores) ==
    IF Len(scores) < 2 THEN "stable"
    ELSE LET slope == PolyfitSlope(scores)
         IN  IF RGe(slope, R(One, 100)) THEN "increasing"
             ELSE IF RLe(slope, R(-One, 100)) THEN "decreasing"
             ELSE "stable"

GetTrendDirection_Steep(scores) ==
    IF Len(scores) < 2 THEN "stable"
    ELSE LET slope == PolyfitSlope(scores)
         IN  IF RGt(slope, R(One, 1)) THEN "increasing"
             ELSE IF RLt(slope, R(-One, 1)) THEN "decreasing"
             ELSE "stable"

GetTrendDirection(scores) ==
    IF Len(scores) < 2 THEN "stable"
    ELSE LET slope == PolyfitSlope(scores)
         IN  IF RGt(slope, R(One, 100)) THEN "increasing"
             ELSE IF RLt(slope, R(-One, 100)) THEN "decreasing"
             ELSE "stable"

----------------------------------------------------------------------------
(* TrendAnalyzer *)

AlertThresholds == {R(1, 4), R(1, 2)}
DefaultAlertThreshold == R(1, 2)

\* TrendAnalyzer.__init__: what the configuration file gives
TrendAnalyzer(aggregation_window, change_detector, alerts_enabled, alert_threshold) ==
    [aggregation_window |-> aggregation_window,
     change_detector |-> change_detector,
     alerts_enabled |-> alerts_enabled,
     alert_threshold |-> alert_threshold]

RECURSIVE ScoresWhere_AtOrBefore(_, _, _)
ScoresWhere_AtOrBefore(agg, cp, before) ==
    IF agg = <<>> THEN <<>>
    ELSE (IF (Head(agg).analyzed_at <= cp) = before
          THEN <<Head(agg).sentiment_score>> ELSE <<>>)
         \o ScoresWhere_AtOrBefore(Tail(agg), cp, before)

\* aggregated_df[aggregated_df['analyzed_at'] < cp] (or >= cp), its scores
RECURSIVE ScoresWhere(_, _, _)
ScoresWhere(agg, cp, before) ==
    IF agg = <<>> THEN <<>>
    ELSE (IF (Head(agg).analyzed_at < cp) = before
          THEN <<Head(agg).sentiment_score>> ELSE <<>>)
         \o ScoresWhere(Tail(agg), cp, before)

AlertReaches_AtMost(change_rate, alert_threshold) ==
    RLe(RAbs(change_rate.num),
        RMul(RMul(alert_threshold, R(100, 1)), change_rate.den))

\* abs(change_rate) >= self.alert_threshold * 100, for the quotient
\* change_rate = num / (den + 1e-8): abs(num) >= t * den + t * 1e-8, where
\* abs(num) - t * den is zero or far above 1e-8 in size
AlertReaches(change_rate, alert_threshold) ==
    LET lhs == RAbs(change_rate.num)
        rhs == RMul(RMul(alert_threshold, R(100, 1)), change_rate.den)
    IN  IF alert_threshold.n > 0 THEN RGt(lhs, rhs) ELSE RGe(lhs, rhs)

RECURSIVE GenerateAlerts(_, _, _)
GenerateAlerts(agg, change_points_dt, alert_threshold) ==
    IF change_points_dt = <<>> THEN <<>>
    ELSE LET cp == Head(change_points_dt)
             before_scores == ScoresWhere(agg, cp, TRUE)
             after_scores == ScoresWhere(agg, cp, FALSE)
             before_mean == Mean(before_scores)
             after_mean == Mean(after_scores)
             change_rate == Quot(RMul(RSub(after_mean, before_mean), R(100, 1)),
                                 RAbs(before_mean), 1)
         IN  (IF before_scores = <<>> \/ after_scores = <<>> THEN <<>>
              ELSE IF AlertReaches(change_rate, alert_threshold)
              THEN <<[change_point |-> IsoFormat(cp),
                      change_type |-> IF change_rate.num.n > 0
                                      THEN "increase" ELSE "decrease",
                      change_rate |-> Quot(RAbs(change_rate.num),
                                           change_rate.den, 1),
                      previous_sentiment |-> before_mean,
                      current_sentiment |-> after_mean]>>
              ELSE <<>>)
             \o GenerateAlerts(agg, Tail(change_points_dt), alert_threshold)

\* analyze_trend, first part: the aggregated frame with its sentiment_score
\* column (no row at all for an empty input)
ScoredAggregate(self, sentiment_data) ==
    LET aggregated == AggregateSentiment(self.aggregation_window, sentiment_data)
    IN  [i \in 1..Len(aggregated) |->
            [analyzed_at |-> aggregated[i].analyzed_at,
             positive_score |-> aggregated[i].positive_score,
             negative_score |-> aggregated[i].negative_score,
             neutral_score |-> aggregated[i].neutral_score,
             sentiment_score |-> AnalyzerCalculateSentimentScore(
                 aggregated[i].positive_score,
                 aggregated[i].negative_score,
                 aggregated[i].neutral_score)]]

\* analyze_trend, second part: the detector runs on the aggregated records
DetectOnAggregate(self, agg) ==
    IF agg = <<>> THEN <<>> ELSE DetectChanges(self.change_detector, agg)

\* analyze_trend, last part: the returned dictionary, given the aggregated
\* frame and the detector's list
TrendResult(self, agg, cps_data) ==
    IF agg = <<>>
    THEN [trend_direction |-> "stable", change_points |-> <<>>, alerts |-> <<>>]
    ELSE LET scores == [i \in 1..Len(agg) |-> agg[i].sentiment_score]
             change_points_dt ==
                 [k \in 1..Len(cps_data) |-> FromIsoFormat(cps_data[k].change_point)]
         IN  [trend_direction |-> GetTrendDirection(scores),
              change_points |-> [k \in 1..Len(change_points_dt) |->
                                    IsoFormat(change_points_dt[k])],
              alerts |-> IF self.alerts_enabled /\ change_points_dt # <<>>
                         THEN GenerateAlerts(agg, change_points_dt,
                                             self.alert_threshold)
                         ELSE <<>>,
              aggregated_data |-> agg]

----------------------------------------------------------------------------
(* The trend service *)

Methods == {"none", "simple", "cusum", "zscore", "bayesian"}

\* trend_analyzer.change_detector after the method override
ServiceDetector(configured, method) ==
    CASE method = "cusum" -> CUSUMDetector(DefaultCusumThreshold, DefaultCusumDrift)
      [] method = "zscore" -> ZScoreDetector(DefaultZThreshold, DefaultZWindowSize)
      [] method = "bayesian" ->
            BayesianChangeDetector(DefaultPrior, DefaultMinSegmentLength)
      [] OTHER -> configured

\* analyze_trend_with_change_points: the returned dictionary, given what
\* analyze_trend returned and the list of the second detect_changes call
ServiceResult(result, change_points_detail, method) ==
    [change_points |-> [k \in 1..Len(change_points_detail) |->
                           change_points_detail[k].change_point],
     alerts |-> change_points_detail,
     trend_result |-> result,
     method |-> IF method = "none" THEN "config_default" ELSE method]

----------------------------------------------------------------------------
(* Actions *)

Init ==
    /\ data = <<>>
    /\ op = "none"
    /\ detector = [kind |-> "none"]
    /\ df_grouped = <<>>
    /\ change_points = <<>>
    /\ aggregated_df = <<>>
    /\ change_points_data = <<>>
    /\ analyzer = [kind |-> "none"]
    /\ trend_result = [kind |-> "none"]
    /\ service_result = [kind |-> "none"]
    /\ score_list = <<>>
    /\ trend_direction = "none"
    /\ calls = <<>>
    /\ invocations = <<>>
    /\ triple = <<>>
    /\ scalars = <<>>
    /\ retry = [pc |-> "idle"]
    /\ collection = [pc |-> "idle"]
    /\ dedup = [pc |-> "idle"]

\* a scored item is appended to the list, in any timestamp order
Collect ==
    /\ op = "none"
    /\ Len(data) < MaxLen
    /\ \E t \in Minutes, tr \in Triples :
          data' = Append(data, Sample(t, tr))
    /\ UNCHANGED <<components, results, standalone>>

SimpleDetectWith(self) ==
    LET res == SimpleDetectFrame(self, ToFrame(data))
    IN  /\ op = "none"
        /\ op' = "simple"
        /\ detector' = self
        /\ df_grouped' = res.grouped
        /\ change_points' = res.change_points
        /\ UNCHANGED <<components, data, analysis, standalone>>

SimpleDetect ==
    \E w \in SimpleWindows, th \in SimpleThresholds :
        SimpleDetectWith(SimpleChangeDetector(w, th))

\* detect_changes of one of the advanced detectors, called on the list
AdvancedDetectWith(self) ==
    /\ op = "none"
    /\ op' = self.kind
    /\ detector' = self
    /\ df_grouped' = <<>>
    /\ change_points' = DetectChanges(self, ToFrame(data))
    /\ UNCHANGED <<components, data, analysis, standalone>>

CusumDetectAction ==
    \E h \in CusumThresholds, k \in CusumDrifts :
        AdvancedDetectWith(CUSUMDetector(h, k))

ZScoreDetectAction ==
    \E z \in ZThresholds, w \in ZWindowSizes :
        AdvancedDetectWith(ZScoreDetector(z, w))

BayesianDetectAction ==
    \E p \in Priors, m \in SegmentLengths :
        AdvancedDetectWith(BayesianChangeDetector(p, m))

\* the detectors a configuration file selects
ConfiguredDetectors ==
    {SimpleChangeDetector(1, R(3, 10)),
     CUSUMDetector(R(0, 1), R(1, 2)),
     ZScoreDetector(R(1, 1), 1),
     BayesianChangeDetector(R(1, 100), 1)}

AlertSettings == {<<TRUE, R(1, 4)>>, <<TRUE, R(1, 2)>>, <<FALSE, R(1, 2)>>}

\* self.analyze_trend(data)
RunAnalyzeTrend(self) ==
    /\ analyzer' = self
    /\ detector' = self.change_detector
    /\ aggregated_df' = ScoredAggregate(self, data)
    /\ change_points_data' = DetectOnAggregate(self, aggregated_df')
    /\ trend_result' = TrendResult(self, aggregated_df', change_points_data')

AnalyzeTrendWith(self) ==
    /\ op = "none"
    /\ op' = "analyze"
    /\ RunAnalyzeTrend(self)
    /\ df_grouped' = <<>>
    /\ change_points' = <<>>
    /\ UNCHANGED <<components, data, service_result, standalone>>

AnalyzeTrendAction ==
    \E w \in AggregationWindows, det \in ConfiguredDetectors, al \in AlertSettings :
        AnalyzeTrendWith(TrendAnalyzer(w, det, al[1], al[2]))

\* analyze_trend_with_change_points(data, method), under some configuration file
ServiceWith(config, method) ==
    /\ op = "none"
    /\ op' = "service"
    /\ RunAnalyzeTrend([config EXCEPT !.change_detector = ServiceDetector(@, method)])
    /\ df_grouped' = <<>>
    /\ change_points' = DetectChanges(detector', ToFrame(data))
    /\ service_result' = ServiceResult(trend_result', change_points', method)
    /\ UNCHANGED <<components, data, standalone>>

\* the detectors the service's configuration file selects
ServiceConfigured ==
    {SimpleChangeDetector(1, DefaultThreshold), CUSUMDetector(R(0, 1), R(1, 2))}

ServiceAction ==
    \E w \in AggregationWindows, det \in ServiceConfigured, method \in Methods :
        ServiceWith(TrendAnalyzer(w, det, TRUE, DefaultAlertThreshold), method)

Next ==
    \/ Collect
    \/ SimpleDetect
    \/ CusumDetectAction
    \/ ZScoreDetectAction
    \/ BayesianDetectAction
    \/ AnalyzeTrendAction
    \/ ServiceAction

Spec == Init /\ [][Next]_vars

----------------------------------------------------------------------------
(* A series: one item a minute from minute 0, in order; then any of the    *)
(* four detectors runs on it.                                              *)

SeriesTriples == Triples \cup {<<0, 0, 10>>}

CollectSeries ==
    /\ op = "none"
    /\ Len(data) < MaxSeries
    /\ \E tr \in SeriesTriples : data' = Append(data, Sample(Len(data), tr))
    /\ UNCHANGED <<components, results, standalone>>

NextSeries ==
    \/ CollectSeries
    \/ SimpleDetect
    \/ CusumDetectAction
    \/ ZScoreDetectAction
    \/ BayesianDetectAction

SpecSeries == Init /\ [][NextSeries]_vars

----------------------------------------------------------------------------
(* The end-to-end scenario: one item a minute from some start minute, the  *)
(* first half at scalar 0.8 and the second half at scalar -0.8, one        *)
(* default window's worth of minutes each; then the default Simple         *)
(* detector runs on the list.                                              *)

ScenarioHalf == DefaultWindowMinutes
PositiveTriple == <<8, 0, 2>>
NegativeTriple == <<1, 9, 0>>

CollectScenario ==
    /\ op = "none"
    /\ Len(data) < 2 * ScenarioHalf
    /\ IF data = <<>>
       THEN \E start \in 0..MaxStart : data' = <<Sample(start, PositiveTriple)>>
       ELSE data' = Append(data,
                Sample(data[Len(data)].analyzed_at + 1,
                       IF Len(data) < ScenarioHalf THEN PositiveTriple
                       ELSE NegativeTriple))
    /\ UNCHANGED <<components, results, standalone>>

DetectScenario ==
    /\ Len(data) = 2 * ScenarioHalf
    /\ SimpleDetectWith(SimpleChangeDetector(DefaultWindowMinutes, DefaultThreshold))

NextScenario == CollectScenario \/ DetectScenario

SpecScenario == Init /\ [][NextScenario]_vars

----------------------------------------------------------------------------
(* Vocabulary of the claims, computed from the input list itself *)

ScalarOf(s) == s.positive_score - s.negative_score

\* the positions of the input whose timestamp lies in the window [tw, tw + w)
InWindow(w, tw) ==
    {i \in 1..Len(data) : tw <= data[i].analyzed_at /\ data[i].analyzed_at < tw + w}

NonEmptyWindows(w) ==
    {tw \in {data[i].analyzed_at - (data[i].analyzed_at % w) : i \in 1..Len(data)} :
        InWindow(w, tw) # {}}

RECURSIVE SumScalar(_)
SumScalar(S) ==
    IF S = {} THEN 0
    ELSE LET i == CHOOSE j \in S : TRUE
         IN  ScalarOf(data[i]) + SumScalar(S \ {i})

WindowMean(w, tw) == R(SumScalar(InWindow(w, tw)), Cardinality(InWindow(w, tw)))

ScenarioResult(cps) ==
    /\ Len(cps) = 1
    /\ cps[1].change_type = "decrease"
    /\ cps[1].previous_score = R(8, 1)
    /\ cps[1].current_score = R(-8, 1)
    /\ cps[1].change_rate.eps = 0
    /\ RDiv(cps[1].change_rate.num, cps[1].change_rate.den) = R(2, 1)

\* C1 as stated: for every start minute the scenario yields exactly one
\* change point: a decrease from 0.8 to -0.8 with change_rate 2.0.
C1_EveryStart == op = "simple" => ScenarioResult(change_points)

\* C1 amended: when the series starts on a window boundary (a start minute
\* that is a multiple of the 10-minute window), the scenario yields exactly
\* one change point: a decrease from 0.8 to -0.8 with change_rate 2.0.
C1_AlignedStart ==
    (op = "simple" /\ data[1].analyzed_at % DefaultWindowMinutes = 0)
        => ScenarioResult(change_points)

C1_Witness ==
    /\ op = "simple"
    /\ data[1].analyzed_at = DefaultWindowMinutes
    /\ Len(change_points) = 1

\* the claim's change rate of a pair of window means
ClaimRate(prev, curr) ==
    IF RGt(RAbs(prev), R(One, 100))
    THEN RDiv(RAbs(RSub(curr, prev)), RAbs(prev))
    ELSE RDiv(RAbs(RSub(curr, prev)), R(One, 1))

\* the windows i (2..n, in ascending order of start) whose pair (i-1, i)
\* crosses the threshold th strictly
CrossingPairs(w, th) ==
    LET starts == SortedSeq(NonEmptyWindows(w))
    IN  {starts[i] : i \in {j \in 2..Len(starts) :
            RGt(ClaimRate(WindowMean(w, starts[j - 1]), WindowMean(w, starts[j])), th)}}

\* C2: the Simple detector emits a change point at window i's timestamp iff
\* the pair (i-1, i) of consecutive non-empty windows has change_rate >
\* threshold (strictly), independently of all other pairs; the number of
\* change points equals the number of crossing pairs.
C2_EveryCrossingPair ==
    (op = "simple" /\ Len(data) >= 2) =>
        LET crossing == CrossingPairs(detector.window_minutes, detector.threshold)
        IN  /\ {change_points[k].change_point : k \in 1..Len(change_points)}
                   = {IsoFormat(tw) : tw \in crossing}
            /\ Len(change_points) = Cardinality(crossing)

\* two adjacent crossings are both reported, and a pair whose rate equals
\* the threshold exactly is not
C2_Witness ==
    /\ op = "simple"
    /\ Len(change_points) = 2
    /\ Len(df_grouped) = 3
    /\ detector.threshold = R(3, 10)

C2_WitnessBoundary ==
    /\ op = "simple"
    /\ Len(df_grouped) = 2
    /\ ClaimRate(df_grouped[1].mean_sentiment, df_grouped[2].mean_sentiment)
           = detector.threshold
    /\ change_points = <<>>

----------------------------------------------------------------------------
(* Claims about the detectors' change points *)

\* a quotient num / (den + eps * 1e-8) is a number (not NaN, not x / 0)
QuotDefined(q) ==
    ~IsNaN(q.num) /\ ~IsNaN(q.den) /\ (q.den.n # 0 \/ q.eps = 1)

QuotNonNegative(q) ==
    QuotDefined(q) /\ q.num.n >= 0 /\ q.den.n >= 0

\* C3: every change point a detector emits has a defined change_rate >= 0
\* and has change_type 'increase' iff current_score > previous_score.
C3_RateAndTypeInvariant ==
    \A k \in 1..Len(change_points) :
        /\ QuotNonNegative(change_points[k].change_rate)
        /\ change_points[k].change_type = "increase"
               <=> RGt(change_points[k].current_score,
                       change_points[k].previous_score)

\* the same, of the detectors other than CUSUM
C3_ExceptCusum == op # "cusum" => C3_RateAndTypeInvariant

ConstantSeries ==
    \A i, j \in 1..Len(data) : ScalarOf(data[i]) = ScalarOf(data[j])

\* C8: CUSUM returns no change point for a series whose scalar values are
\* all identical, whatever the threshold and the drift (zero and negative
\* ones included) and whatever the length.
C8_ConstantSeriesEmpty ==
    (op = "cusum" /\ ConstantSeries) => change_points = <<>>

C8_Witness ==
    /\ op = "cusum"
    /\ ConstantSeries
    /\ Len(data) = MaxSeries
    /\ detector.threshold.n < 0
    /\ detector.drift.n = 0
    /\ change_points = <<>>

\* the series with every scalar value negated: positive and negative swapped
Negated(sentiment_data) ==
    [i \in 1..Len(sentiment_data) |->
        [analyzed_at |-> sentiment_data[i].analyzed_at,
         positive_score |-> sentiment_data[i].negative_score,
         negative_score |-> sentiment_data[i].positive_score,
         neutral_score |-> sentiment_data[i].neutral_score]]

Flip(change_type) == IF change_type = "increase" THEN "decrease" ELSE "increase"

TimesAndZ(cps, flipped) ==
    [k \in 1..Len(cps) |->
        [change_point |-> cps[k].change_point,
         z_score |-> cps[k].z_score,
         change_type |-> IF flipped THEN Flip(cps[k].change_type)
                         ELSE cps[k].change_type]]

NegationFlips ==
    TimesAndZ(ZScoreDetectFrame(detector, ToFrame(Negated(data))), FALSE)
        = TimesAndZ(change_points, TRUE)

\* C9: for any series and any ZScoreDetector configuration, the detector run
\* on the negated series gives change points at the same timestamps with the
\* same z_score values and every change_type flipped.
C9_NegationFlipsTypes == op = "zscore" => NegationFlips

\* the same, of the configurations with z_threshold >= 0
C9_NonNegativeThreshold ==
    (op = "zscore" /\ detector.z_threshold.n >= 0) => NegationFlips

\* in a series the timestamp of an item is its index
IndexedByMinute == \A i \in 1..Len(data) : data[i].analyzed_at = i - 1

\* C10: with min_segment_length >= 1, any two distinct change points of the
\* Bayesian detector are at indices at least min_segment_length apart.
C10_MinimumSpacing ==
    (op = "bayesian" /\ detector.min_segment_length >= 1 /\ IndexedByMinute) =>
        \A j, k \in 1..Len(change_points) :
            j # k =>
                Abs(FromIsoFormat(change_points[j].change_point)
                    - FromIsoFormat(change_points[k].change_point))
                    >= detector.min_segment_length

\* an index over the threshold was dropped for being too close to an emitted one
C10_Witness ==
    /\ op = "bayesian"
    /\ detector.min_segment_length = 2
    /\ IndexedByMinute
    /\ Len(change_points) >= 1
    /\ Len(ChangeIndices(
           CalculateChangeProbabilities(detector, ScoreValues(ToFrame(data))),
           detector.prior_prob, 0)) > Len(change_points)

----------------------------------------------------------------------------
(* Claims about the aggregation and the alerts *)

Analysed == op \in {"analyze", "service"}

\* C4: the aggregation produces no entry for a window that contains no input
\* sample, neither in TimeSeriesAnalyzer.aggregate_sentiment nor in
\* SimpleChangeDetector._aggregate_by_window.
C4_NoRowForEmptyWindow ==
    /\ Analysed =>
          \A k \in 1..Len(aggregated_df) :
              InWindow(analyzer.aggregation_window, aggregated_df[k].analyzed_at) # {}
    /\ op = "simple" =>
          \A k \in 1..Len(df_grouped) :
              InWindow(detector.window_minutes, df_grouped[k].time_window) # {}

\* the same, of the Simple detector's aggregation alone
C4_SimpleOnly ==
    op = "simple" =>
        \A k \in 1..Len(df_grouped) :
            InWindow(detector.window_minutes, df_grouped[k].time_window) # {}

RECURSIVE SumCounts(_)
SumCounts(rows) == IF rows = <<>> THEN 0 ELSE Head(rows).count + SumCounts(Tail(rows))

\* C5: for any unordered input list the aggregated windows are strictly
\* increasing in window start, each window's count is the number of input
\* triples whose timestamp floors to its start, and the counts add up to the
\* number of input triples.  (aggregate_sentiment returns no count column:
\* of it, the order of the rows and that every input's window has a row.)
C5_WindowsOrderedAndCounted ==
    /\ (op = "simple" /\ Len(data) >= 2) =>
          LET w == detector.window_minutes
          IN  /\ \A k \in 1..(Len(df_grouped) - 1) :
                     df_grouped[k].time_window < df_grouped[k + 1].time_window
              /\ \A k \in 1..Len(df_grouped) :
                     /\ df_grouped[k].time_window % w = 0
                     /\ df_grouped[k].count
                            = Cardinality(InWindow(w, df_grouped[k].time_window))
              /\ SumCounts(df_grouped) = Len(data)
    /\ Analysed =>
          LET w == analyzer.aggregation_window
          IN  /\ \A k \in 1..(Len(aggregated_df) - 1) :
                     aggregated_df[k].analyzed_at < aggregated_df[k + 1].analyzed_at
              /\ \A tw \in NonEmptyWindows(w) :
                     \E k \in 1..Len(aggregated_df) : aggregated_df[k].analyzed_at = tw

\* an unordered input: a later item carries an earlier timestamp, and one
\* window holds two items
C5_Witness ==
    /\ op = "simple"
    /\ Len(data) = 3
    /\ data[1].analyzed_at > data[3].analyzed_at
    /\ Len(df_grouped) = 2
    /\ \E k \in 1..Len(df_grouped) : df_grouped[k].count = 2

\* the window starts of aggregated_df before cp, and from cp on
RowsBefore(cp) == {k \in 1..Len(aggregated_df) : aggregated_df[k].analyzed_at < cp}
RowsFrom(cp) == {k \in 1..Len(aggregated_df) : aggregated_df[k].analyzed_at >= cp}

RECURSIVE SumRowScores(_)
SumRowScores(K) ==
    IF K = {} THEN R(0, 1)
    ELSE LET k == CHOOSE j \in K : TRUE
         IN  RAdd(aggregated_df[k].sentiment_score, SumRowScores(K \ {k}))

MeanOfRows(K) == RDiv(SumRowScores(K), R(Cardinality(K), 1))

\* |(mean(after) - mean(before)) / (|mean(before)| + 1e-8) * 100| >= t * 100
\* over the whole aggregated series, split at cp
MagnitudeReaches(cp, t) ==
    /\ RowsBefore(cp) # {}
    /\ RowsFrom(cp) # {}
    /\ LET before == MeanOfRows(RowsBefore(cp))
           after == MeanOfRows(RowsFrom(cp))
           gap == RAbs(RSub(after, before))
       IN  IF t.n > 0 THEN RGt(gap, RMul(t, RAbs(before)))
           ELSE RGe(gap, RMul(t, RAbs(before)))

\* C6: every record returned as an alert, by analyze_trend and by
\* analyze_trend_with_change_points, is a change point whose magnitude
\* recomputed over the whole aggregated series reaches alert_threshold.
C6_AlertsReachThreshold ==
    /\ Analysed =>
          \A k \in 1..Len(trend_result.alerts) :
              MagnitudeReaches(FromIsoFormat(trend_result.alerts[k].change_point),
                               analyzer.alert_threshold)
    /\ op = "service" =>
          \A k \in 1..Len(service_result.alerts) :
              MagnitudeReaches(FromIsoFormat(service_result.alerts[k].change_point),
                               analyzer.alert_threshold)

\* the same, of analyze_trend alone
C6_AnalyzeTrendOnly ==
    Analysed =>
        \A k \in 1..Len(trend_result.alerts) :
            MagnitudeReaches(FromIsoFormat(trend_result.alerts[k].change_point),
                             analyzer.alert_threshold)

DetectedTimes ==
    [k \in 1..Len(change_points_data) |->
        FromIsoFormat(change_points_data[k].change_point)]

AlertsAt(t) == GenerateAlerts(aggregated_df, DetectedTimes, t)

Range(seq) == {seq[k] : k \in 1..Len(seq)}

\* C7: for the aggregated series and the change points of an analysis, the
\* alerts _generate_alerts produces with a threshold t2 are among those it
\* produces with any threshold t1 <= t2, so their number does not grow; the
\* alerts the analysis returned are those of its own threshold.
C7_AlertsMonotone ==
    Analysed =>
        /\ \A t1, t2 \in AlertThresholds :
               RLe(t1, t2) =>
                   /\ Range(AlertsAt(t2)) \subseteq Range(AlertsAt(t1))
                   /\ Len(AlertsAt(t2)) <= Len(AlertsAt(t1))
        /\ analyzer.alerts_enabled =>
               trend_result.alerts = AlertsAt(analyzer.alert_threshold)

\* raising the threshold from 1/4 to 1/2 loses an alert
C7_Witness ==
    /\ op = "analyze"
    /\ analyzer.alerts_enabled
    /\ analyzer.alert_threshold = R(1, 2)
    /\ Len(AlertsAt(R(1, 4))) > Len(AlertsAt(R(1, 2)))
    /\ Len(trend_result.alerts) >= 1

----------------------------------------------------------------------------
(* get_trend_direction on its own: a list of scores is built one value at  *)
(* a time, each a step away from the one before, then the function runs.   *)
(* Or items are collected and analyze_trend runs on them.                  *)

MaxScores == 5      \* longest list of scores

\* the first score, and the steps from one score to the next (in tenths)
FirstScores == {R(0, 1), R(5, 1)}
ScoreSteps == {R(-2, 1), R(0, 1), R(1, 100), R(1, 10), R(2, 1)}

CollectScore ==
    /\ trend_direction = "none"
    /\ data = <<>>
    /\ Len(score_list) < MaxScores
    /\ IF score_list = <<>>
       THEN \E v \in FirstScores : score_list' = <<v>>
       ELSE \E step \in ScoreSteps :
               score_list' = Append(score_list,
                                    RAdd(score_list[Len(score_list)], step))
    /\ UNCHANGED <<components, data, results, trend_direction, calls, invocations>>

GetTrendDirectionAction ==
    /\ trend_direction = "none"
    /\ op = "none" /\ data = <<>>
    /\ trend_direction' = GetTrendDirection(score_list)
    /\ UNCHANGED <<components, data, results, score_list, calls, invocations>>

\* the items of an analysis are collected when no list of scores is being built
CollectItem == score_list = <<>> /\ trend_direction = "none" /\ Collect

\* analyze_trend on the collected items
AnalyzeItems == score_list = <<>> /\ trend_direction = "none" /\ AnalyzeTrendAction

NextTrend ==
    \/ CollectScore
    \/ GetTrendDirectionAction
    \/ CollectItem
    \/ AnalyzeItems

SpecTrend == Init /\ [][NextTrend]_vars

\* the steps of the list: every one above the bound, or every one zero
StepsAbove(bound) ==
    \A i \in 1..(Len(score_list) - 1) :
        RGt(RSub(score_list[i + 1], score_list[i]), bound)

AllEqual ==
    \A i \in 1..Len(score_list) : score_list[i] = score_list[1]

\* C11 as stated: every strictly increasing series of length >= 5 is
\* 'increasing', whatever the size of the increments, and every series of
\* equal values is 'stable'.
C11_EveryIncreasingSeries ==
    trend_direction # "none" =>
        /\ (Len(score_list) >= 5 /\ StepsAbove(R(0, 1))) =>
               trend_direction = "increasing"
        /\ AllEqual => trend_direction = "stable"

\* C11, amended: every series of length >= 2 (so every one of length >= 5)
\* whose every increment exceeds 0.01 is 'increasing', and every series of
\* equal values is 'stable'.
C11_IncrementsAboveSlopeBand ==
    trend_direction # "none" =>
        /\ (Len(score_list) >= 2 /\ StepsAbove(R(One, 100))) =>
               trend_direction = "increasing"
        /\ AllEqual => trend_direction = "stable"

C11_Witness ==
    /\ Len(score_list) = 5
    /\ StepsAbove(R(One, 100))
    /\ trend_direction = "increasing"

----------------------------------------------------------------------------
(* One detector object, called several times: the caller constructs it,    *)
(* then hands it one of a few series per call.                             *)

MaxCalls == 3       \* calls made on the one object

SeriesOf(triples) == [i \in 1..Len(triples) |-> Sample(i - 1, triples[i])]

\* the series the caller holds: none, too short, a step down, a spike, a
\* zigzag
CallSeries ==
    {SeriesOf(<<>>),
     SeriesOf(<<PositiveTriple>>),
     SeriesOf(<<PositiveTriple, PositiveTriple, NegativeTriple, NegativeTriple>>),
     SeriesOf(<<NegativeTriple, NegativeTriple, PositiveTriple, NegativeTriple,
                NegativeTriple>>),
     SeriesOf(<<PositiveTriple, NegativeTriple, PositiveTriple, NegativeTriple,
                PositiveTriple, PositiveTriple>>)}

CallDetectChanges_ConsumesInput(self, sentiment_data) ==
    [returned |-> DetectChanges(self, ToFrame(sentiment_data)),
     self |-> self,
     sentiment_data |-> IF sentiment_data = <<>> THEN <<>> ELSE Tail(sentiment_data)]

\* self.detect_changes(sentiment_data): what it returns, and the object's
\* fields and the caller's list when it has returned.  detect_changes
\* assigns no attribute of self, and works on the DataFrame it builds from
\* the list, never on the list.
CallDetectChanges(self, sentiment_data) ==
    [returned |-> DetectChanges(self, ToFrame(sentiment_data)),
     self |-> self,
     sentiment_data |-> sentiment_data]

Construct ==
    /\ detector.kind = "none"
    /\ \/ \E w \in SimpleWindows, th \in SimpleThresholds :
              detector' = SimpleChangeDetector(w, th)
       \/ \E h \in CusumThresholds, k \in CusumDrifts :
              detector' = CUSUMDetector(h, k)
       \/ \E z \in ZThresholds, w \in ZWindowSizes :
              detector' = ZScoreDetector(z, w)
       \/ \E pr \in Priors, m \in SegmentLengths :
              detector' = BayesianChangeDetector(pr, m)
    /\ UNCHANGED <<components, data, op, df_grouped, change_points, analysis, standalone>>

CallAgain ==
    /\ detector.kind # "none"
    /\ Len(calls) < MaxCalls
    /\ \E series \in CallSeries :
          LET res == CallDetectChanges(detector, series)
          IN  /\ calls' = Append(calls, [self_before |-> detector,
                                         sentiment_data |-> series,
                                         returned |-> res.returned,
                                         self_after |-> res.self,
                                         sentiment_data_after |-> res.sentiment_data])
              /\ detector' = res.self
              /\ data' = res.sentiment_data
              /\ change_points' = res.returned
    /\ op' = "calls"
    /\ UNCHANGED <<components, df_grouped, analysis, score_list, trend_direction, invocations>>

NextCalls == Construct \/ CallAgain

SpecCalls == Init /\ [][NextCalls]_vars

----------------------------------------------------------------------------
(* Claims about too little data *)

EmptyTrendResult ==
    /\ trend_result.trend_direction = "stable"
    /\ trend_result.change_points = <<>>
    /\ trend_result.alerts = <<>>

\* C13: detect_changes returns the empty list when the input has fewer than
\* 2 samples or fewer than 2 non-empty windows (Simple), fewer than 3
\* (CUSUM), fewer than 2*window_size (Z-score), fewer than
\* 2*min_segment_length (Bayesian); for an empty input the aggregation is
\* empty and analyze_trend returns 'stable' with no change point and no
\* alert.
C13_TooLittleDataIsEmpty ==
    /\ (op = "simple"
          /\ (Len(data) < 2
                \/ Cardinality(NonEmptyWindows(detector.window_minutes)) < 2))
          => change_points = <<>>
    /\ (op = "cusum" /\ Len(data) < 3) => change_points = <<>>
    /\ (op = "zscore" /\ Len(data) < 2 * detector.window_size)
          => change_points = <<>>
    /\ (op = "bayesian" /\ Len(data) < 2 * detector.min_segment_length)
          => change_points = <<>>
    /\ (op = "analyze" /\ data = <<>>)
          => (aggregated_df = <<>> /\ EmptyTrendResult)

\* two samples of different score in one window of the Simple detector
C13_Witness ==
    /\ op = "simple"
    /\ Len(data) = 2
    /\ ScalarOf(data[1]) # ScalarOf(data[2])
    /\ Cardinality(NonEmptyWindows(detector.window_minutes)) = 1
    /\ change_points = <<>>

\* three samples pass the Z-score detector's own length test for
\* window_size 2, and still give nothing
C13_WitnessZScore ==
    /\ op = "zscore"
    /\ detector.window_size = 2
    /\ Len(data) = 3
    /\ change_points = <<>>

----------------------------------------------------------------------------
(* Claims about construction *)

\* C14: no detector object holds an invalid configuration: a negative
\* threshold, a window width, window_size or min_segment_length below 1, or
\* a prior probability outside (0, 1); construction with such a value fails.
C14_NoInvalidDetector ==
    /\ detector.kind = "simple" =>
          (RGe(detector.threshold, R(0, 1)) /\ detector.window_minutes >= 1)
    /\ detector.kind = "cusum" => RGe(detector.threshold, R(0, 1))
    /\ detector.kind = "zscore" =>
          (RGe(detector.z_threshold, R(0, 1)) /\ detector.window_size >= 1)
    /\ detector.kind = "bayesian" =>
          /\ RGt(detector.prior_prob, R(0, 1))
          /\ RLt(detector.prior_prob, R(1, 1))
          /\ detector.min_segment_length >= 1

----------------------------------------------------------------------------
(* Concurrent invocations: analyze_trend runs for two keywords at once,    *)
(* each on its own TrendAnalyzer object (the caller's, or the one          *)
(* analyze_trend_with_change_points creates for the call), its statements  *)
(* interleaved with the other's in any order.  A frame holds what one      *)
(* invocation works on: self, its argument and its local variables.        *)

Keywords == {"keyword_a", "keyword_b"}

\* the lists of the two keywords
KeywordData ==
    {<<>>,
     <<Sample(1, NegativeTriple), Sample(0, PositiveTriple)>>,
     <<Sample(0, PositiveTriple), Sample(2, PositiveTriple),
       Sample(2, NegativeTriple)>>}

\* the analyzers the callers hold
KeywordAnalyzers ==
    {TrendAnalyzer(1, SimpleChangeDetector(1, DefaultThreshold), TRUE,
                   DefaultAlertThreshold),
     TrendAnalyzer(2, BayesianChangeDetector(R(1, 4), 1), TRUE, R(1, 4))}

NewFrame(via, self, method, sentiment_data) ==
    [pc |-> "aggregate", via |-> via, self |-> self, method |-> method,
     sentiment_data |-> sentiment_data,
     aggregated_df |-> <<>>, trend_direction |-> "none",
     change_points_data |-> <<>>, result |-> [kind |-> "none"],
     service_result |-> [kind |-> "none"]]

Frame_Shared(invs, keyword) ==
    [invs[keyword] EXCEPT
        !.trend_direction = invs[CHOOSE k \in DOMAIN invs : TRUE].trend_direction]

\* the frame a statement of the invocation for keyword reads and writes:
\* aggregated_df, scores, change_points_data and the rest are local
\* variables of analyze_trend, and self is the invocation's own object
Frame(invs, keyword) == invs[keyword]

\* aggregated_df = self.time_series_analyzer.aggregate_sentiment(...), and
\* the early return for an empty frame
StepAggregate(f) ==
    LET aggregated == AggregateSentiment(f.self.aggregation_window, f.sentiment_data)
    IN  IF aggregated = <<>>
        THEN [f EXCEPT !.pc = IF f.via = "service" THEN "detail" ELSE "done",
                       !.result = [trend_direction |-> "stable",
                                   change_points |-> <<>>, alerts |-> <<>>]]
        ELSE [f EXCEPT !.pc = "score", !.aggregated_df = aggregated]

\* aggregated_df['sentiment_score'] = aggregated_df.apply(...)
StepScore(f) ==
    [f EXCEPT !.pc = "direction",
              !.aggregated_df =
                  [i \in 1..Len(f.aggregated_df) |->
                      [analyzed_at |-> f.aggregated_df[i].analyzed_at,
                       positive_score |-> f.aggregated_df[i].positive_score,
                       negative_score |-> f.aggregated_df[i].negative_score,
                       neutral_score |-> f.aggregated_df[i].neutral_score,
                       sentiment_score |-> AnalyzerCalculateSentimentScore(
                           f.aggregated_df[i].positive_score,
                           f.aggregated_df[i].negative_score,
                           f.aggregated_df[i].neutral_score)]]]

\* trend_direction = self.time_series_analyzer.get_trend_direction(scores)
StepDirection(f) ==
    [f EXCEPT !.pc = "detect",
              !.trend_direction =
                  GetTrendDirection([i \in 1..Len(f.aggregated_df) |->
                                        f.aggregated_df[i].sentiment_score])]

\* change_points_data = self.change_detector.detect_changes(sentiment_list)
StepDetect(f) ==
    [f EXCEPT !.pc = "alerts",
              !.change_points_data =
                  DetectChanges(f.self.change_detector, f.aggregated_df)]

\* the alerts, and the returned dictionary
StepAlerts(f) ==
    LET change_points_dt ==
            [k \in 1..Len(f.change_points_data) |->
                FromIsoFormat(f.change_points_data[k].change_point)]
    IN  [f EXCEPT !.pc = IF f.via = "service" THEN "detail" ELSE "done",
                  !.result =
                      [trend_direction |-> f.trend_direction,
                       change_points |-> [k \in 1..Len(change_points_dt) |->
                                             IsoFormat(change_points_dt[k])],
                       alerts |-> IF f.self.alerts_enabled /\ change_points_dt # <<>>
                                  THEN GenerateAlerts(f.aggregated_df, change_points_dt,
                                                      f.self.alert_threshold)
                                  ELSE <<>>,
                       aggregated_data |-> f.aggregated_df]]

\* analyze_trend_with_change_points after analyze_trend has returned
StepDetail(f) ==
    [f EXCEPT !.pc = "done",
              !.service_result =
                  ServiceResult(f.result,
                                DetectChanges(f.self.change_detector,
                                              ToFrame(f.sentiment_data)),
                                f.method)]

StepOf(f) ==
    CASE f.pc = "aggregate" -> StepAggregate(f)
      [] f.pc = "score" -> StepScore(f)
      [] f.pc = "direction" -> StepDirection(f)
      [] f.pc = "detect" -> StepDetect(f)
      [] f.pc = "alerts" -> StepAlerts(f)
      [] f.pc = "detail" -> StepDetail(f)

\* analyzer.analyze_trend(sentiment_data) is called for a keyword
StartAnalyze ==
    /\ \E keyword \in Keywords \ DOMAIN invocations,
          self \in KeywordAnalyzers, sentiment_data \in KeywordData :
          invocations' = invocations @@
              (keyword :> NewFrame("analyze", self, "none", sentiment_data))
    /\ UNCHANGED <<components, data, results, score_list, trend_direction, calls>>

\* analyze_trend_with_change_points(sentiment_data, method) is called for a
\* keyword: it creates its TrendAnalyzer and overrides the detector
StartService ==
    /\ \E keyword \in Keywords \ DOMAIN invocations,
          method \in {"none", "cusum"}, sentiment_data \in KeywordData :
          LET configured == TrendAnalyzer(1, SimpleChangeDetector(1, DefaultThreshold),
                                          TRUE, DefaultAlertThreshold)
              self == [configured EXCEPT
                          !.change_detector = ServiceDetector(@, method)]
          IN  invocations' = invocations @@
                  (keyword :> NewFrame("service", self, method, sentiment_data))
    /\ UNCHANGED <<components, data, results, score_list, trend_direction, calls>>

\* the next statement of one of the invocations runs
StepInvocation ==
    /\ \E keyword \in DOMAIN invocations :
          /\ invocations[keyword].pc # "done"
          /\ invocations' =
                 [invocations EXCEPT ![keyword] = StepOf(Frame(invocations, keyword))]
    /\ UNCHANGED <<components, data, results, score_list, trend_direction, calls>>

NextConcurrent == StartAnalyze \/ StartService \/ StepInvocation

SpecConcurrent == Init /\ [][NextConcurrent]_vars

\* what the invocation returns when it runs alone
AloneResult(f) ==
    LET agg == ScoredAggregate(f.self, f.sentiment_data)
    IN  TrendResult(f.self, agg, DetectOnAggregate(f.self, agg))

AloneServiceResult(f) ==
    ServiceResult(AloneResult(f),
                  DetectChanges(f.self.change_detector, ToFrame(f.sentiment_data)),
                  f.method)

\* C15: every invocation that has returned, whatever the interleaving with
\* the other keyword's invocation, returned exactly what it returns when
\* run alone.
C15_ConcurrentAsAlone ==
    \A keyword \in DOMAIN invocations :
        LET f == invocations[keyword]
        IN  f.pc = "done" =>
                /\ f.result = AloneResult(f)
                /\ f.via = "service" => f.service_result = AloneServiceResult(f)

\* both invocations have returned, with different results, one with alerts
C15_Witness ==
    /\ DOMAIN invocations = Keywords
    /\ \A keyword \in Keywords : invocations[keyword].pc = "done"
    /\ invocations["keyword_a"].result # invocations["keyword_b"].result
    /\ invocations["keyword_a"].result.alerts # <<>>
    /\ invocations["keyword_b"].via = "service"

----------------------------------------------------------------------------
(* Claims about the service's choice of detector *)

KindOfMethod(method) ==
    CASE method = "simple" -> "simple"
      [] method = "cusum" -> "cusum"
      [] method = "zscore" -> "zscore"
      [] method = "bayesian" -> "bayesian"

\* C16: analyze_trend_with_change_points(sentiment_list, method) detects
\* with the detector method names, for simple, cusum, zscore and bayesian
\* alike, whatever detector the configuration file selects.
C16_MethodNamesDetector ==
    (op = "service" /\ service_result.method # "config_default") =>
        /\ detector.kind = KindOfMethod(service_result.method)
        /\ analyzer.change_detector.kind = KindOfMethod(service_result.method)

\* the same, of the methods cusum, zscore and bayesian
C16_ExceptSimple ==
    (op = "service" /\ service_result.method \in {"cusum", "zscore", "bayesian"}) =>
        /\ detector.kind = KindOfMethod(service_result.method)
        /\ analyzer.change_detector.kind = KindOfMethod(service_result.method)

----------------------------------------------------------------------------
(* Claims about the order of the input list *)

\* the input list with the items at positions i and i + 1 exchanged; every
\* permutation of a list is a chain of such exchanges, and every list of
\* the chain is itself an input of the model
Exchanged(i) ==
    [j \in 1..Len(data) |->
        IF j = i THEN data[i + 1] ELSE IF j = i + 1 THEN data[i] ELSE data[j]]

AnalyzeTrendOf(self, sentiment_data) ==
    LET agg == ScoredAggregate(self, sentiment_data)
    IN  TrendResult(self, agg, DetectOnAggregate(self, agg))

DetectorRan == op \in {"simple", "cusum", "zscore", "bayesian"}

DistinctTimestamps ==
    \A i, j \in 1..Len(data) :
        i # j => data[i].analyzed_at # data[j].analyzed_at

\* C17: the result of analyze_trend and of each detector's detect_changes
\* is the same for every permutation of the input list.
C17_OrderOfInputIrrelevant ==
    \A i \in 1..(Len(data) - 1) :
        /\ DetectorRan =>
               DetectChanges(detector, ToFrame(Exchanged(i))) = change_points
        /\ op = "analyze" =>
               AnalyzeTrendOf(analyzer, Exchanged(i)) = trend_result

\* the same, of analyze_trend and of the Simple detector
C17_AnalyzeTrendAndSimple ==
    \A i \in 1..(Len(data) - 1) :
        /\ op = "simple" =>
               DetectChanges(detector, ToFrame(Exchanged(i))) = change_points
        /\ op = "analyze" =>
               AnalyzeTrendOf(analyzer, Exchanged(i)) = trend_result

\* the same, of the lists in which no two items share a timestamp
C17_DistinctTimestamps ==
    DistinctTimestamps =>
        \A i \in 1..(Len(data) - 1) :
            /\ DetectorRan =>
                   DetectChanges(detector, ToFrame(Exchanged(i))) = change_points
            /\ op = "analyze" =>
                   AnalyzeTrendOf(analyzer, Exchanged(i)) = trend_result

----------------------------------------------------------------------------
(* Claims about what the analyzer hands to its detector *)

ChangePointTimes(cps) == [k \in 1..Len(cps) |-> cps[k].change_point]

\* C18: with the Simple detector configured, the change points of the
\* TrendResult are those of SimpleChangeDetector.detect_changes on the raw
\* input list, whatever the aggregation window; the other three detectors
\* are given the aggregated series.
C18_SimpleGetsRawInput ==
    op = "analyze" =>
        IF analyzer.change_detector.kind = "simple"
        THEN trend_result.change_points
                 = ChangePointTimes(DetectChanges(analyzer.change_detector,
                                                  ToFrame(data)))
        ELSE change_points_data
                 = DetectOnAggregate(analyzer, aggregated_df)

\* the same, of the three other detectors
C18_OthersGetAggregate ==
    (op = "analyze" /\ analyzer.change_detector.kind # "simple") =>
        change_points_data = DetectOnAggregate(analyzer, aggregated_df)

----------------------------------------------------------------------------
(* Claims about _generate_alerts as a function of its arguments *)

\* change points to hand to _generate_alerts: the start of every window of
\* the aggregated series, the first included, and a time after the last
CandidateTimes ==
    [k \in 1..(Len(aggregated_df) + 1) |->
        IF k <= Len(aggregated_df) THEN aggregated_df[k].analyzed_at
        ELSE aggregated_df[Len(aggregated_df)].analyzed_at + 1]

ThresholdsWithZero == AlertThresholds \cup {R(0, 1)}

\* the change points of cps that the claim says yield an alert, in order
RECURSIVE Alerting(_, _)
Alerting(cps, t) ==
    IF cps = <<>> THEN <<>>
    ELSE (IF MagnitudeReaches(Head(cps), t) THEN <<Head(cps)>> ELSE <<>>)
         \o Alerting(Tail(cps), t)

AlertAsClaimed(alert, cp) ==
    LET before == MeanOfRows(RowsBefore(cp))
        after == MeanOfRows(RowsFrom(cp))
    IN  /\ alert.change_point = IsoFormat(cp)
        /\ alert.previous_sentiment = before
        /\ alert.current_sentiment = after
        /\ alert.change_rate.num.n >= 0
        /\ alert.change_rate.den.n >= 0
        /\ (alert.change_type = "increase") = RGt(after, before)
        /\ alert.change_type \in {"increase", "decrease"}
        /\ cp > aggregated_df[1].analyzed_at

C19_WitnessBoundary ==
    /\ op = "analyze"
    /\ aggregated_df # <<>>
    /\ \E k \in 1..Len(GenerateAlerts(aggregated_df, CandidateTimes, R(0, 1))) :
           GenerateAlerts(aggregated_df, CandidateTimes, R(0, 1))[k].change_rate.num.n = 0

----------------------------------------------------------------------------
(* Claims about the CUSUM statistics, recomputed from the series.  With    *)
(* x the normalized series and k the drift, the recursion                  *)
(* S[0] = 0, S[i] = max(0, S[i-1] + x[i] - k) has the closed form          *)
(* S[i] = max(0, max over 1 <= j <= i of sum of (x[m] - k) for m in j..i). *)

SeriesValues == [j \in 1..Len(data) |-> R(ScalarOf(data[j]), 1)]

SeriesMean == RDiv(RSum(SeriesValues), R(Len(data), 1))

\* sums[i + 1] is the sum of values[m] - mean over the indices m <= i
RECURSIVE DevSums(_, _, _)
DevSums(values, mean, i) ==
    IF i < 0 THEN <<>>
    ELSE LET before == DevSums(values, mean, i - 1)
         IN  Append(before,
                    RAdd(IF i = 0 THEN R(0, 1) ELSE before[i],
                         RSub(values[i + 1], mean)))

SeriesDevSums == DevSums(SeriesValues, SeriesMean, Len(data) - 1)

SeriesSsd ==
    LET mean == SeriesMean
    IN  RSum([j \in 1..Len(data) |->
                RMul(RSub(SeriesValues[j], mean), RSub(SeriesValues[j], mean))])

\* the sum of sign * (x[m] - k) over the indices j..i (1 <= j), as [dev, steps]
Segment(sums, sign, j, i) ==
    [dev |-> RMul(R(sign, 1), RSub(sums[i + 1], sums[j])), steps |-> i - j + 1]

\* a > b, of two statistics
StatGreater(a, b, ssd) ==
    StatExceeds([dev |-> RSub(a.dev, b.dev), steps |-> a.steps - b.steps],
                detector.drift, R(0, 1), ssd, Len(data))

\* S[i] > c, for the closed form of S
ClosedFormAbove(sums, ssd, sign, i, c) ==
    \/ c.n < 0
    \/ \E j \in 1..i :
           StatExceeds(Segment(sums, sign, j, i), detector.drift, c, ssd, Len(data))

\* stat has the value of S[i]: it is 0 or one of the sums, and neither 0
\* nor any of the sums is greater
IsClosedForm(stat, sums, ssd, sign, i) ==
    /\ stat = ZeroStat \/ \E j \in 1..i : stat = Segment(sums, sign, j, i)
    /\ ~StatGreater(ZeroStat, stat, ssd)
    /\ \A j \in 1..i : ~StatGreater(Segment(sums, sign, j, i), stat, ssd)

PointsAt(i) == {k \in 1..Len(change_points) : change_points[k].change_point = IsoFormat(i)}

\* C20: on a series of at least 3 samples that are not all equal, the
\* CUSUM detector emits exactly one change point at every index i >= 1
\* where S_plus[i] > h or S_minus[i] > h, S being the never reset,
\* never negative recursion of the claim, and none elsewhere: typed
\* 'increase' with change_magnitude S_plus[i] when S_plus[i] > h, and
\* 'decrease' with change_magnitude S_minus[i] otherwise.
C20_CusumRecursion ==
    (op = "cusum" /\ Len(data) >= 3 /\ ~ConstantSeries) =>
        LET sums == SeriesDevSums
            ssd == SeriesSsd
            h == detector.threshold
            up == [i \in 1..(Len(data) - 1) |-> ClosedFormAbove(sums, ssd, 1, i, h)]
            down == [i \in 1..(Len(data) - 1) |-> ClosedFormAbove(sums, ssd, -1, i, h)]
            triggering == {i \in 1..(Len(data) - 1) : up[i] \/ down[i]}
        IN  /\ Len(change_points) = Cardinality(triggering)
            /\ \A i \in 1..(Len(data) - 1) :
                   IF i \in triggering
                   THEN /\ Cardinality(PointsAt(i)) = 1
                        /\ LET cp == change_points[CHOOSE k \in PointsAt(i) : TRUE]
                           IN  IF up[i]
                               THEN /\ cp.change_type = "increase"
                                    /\ IsClosedForm(cp.change_magnitude, sums, ssd, 1, i)
                               ELSE /\ cp.change_type = "decrease"
                                    /\ IsClosedForm(cp.change_magnitude, sums, ssd, -1, i)
                   ELSE PointsAt(i) = {}

\* increases and decreases at consecutive indices, the threshold not negative
C20_Witness ==
    /\ op = "cusum"
    /\ detector.threshold.n >= 0
    /\ \E k \in 1..(Len(change_points) - 1) :
           /\ change_points[k].change_type = "increase"
           /\ change_points[k + 1].change_type = "decrease"
           /\ FromIsoFormat(change_points[k + 1].change_point)
                  = FromIsoFormat(change_points[k].change_point) + 1
    /\ \E k \in 1..Len(change_points) :
           /\ change_points[k].change_type = "increase"
           /\ ClosedFormAbove(SeriesDevSums, SeriesSsd, -1,
                              FromIsoFormat(change_points[k].change_point),
                              detector.threshold)

----------------------------------------------------------------------------
(* Claims about the scores of a CUSUM change point *)

\* the mean of the samples at the Python indices a..(b - 1), NaN when empty
RangeMean(a, b) == Mean([j \in 1..(b - a) |-> SeriesValues[a + j]])

IndexOf(cp) == FromIsoFormat(cp.change_point)

\* C21: for every change point CUSUM emits at index i of a series of
\* length n, previous_score is the mean of the non-empty range
\* [max(0, i-5), i) and current_score is the mean of the non-empty range
\* [i, min(n, i+5)); both are defined also when i = n-1.
C21_ContextWindows ==
    op = "cusum" =>
        \A k \in 1..Len(change_points) :
            LET i == IndexOf(change_points[k])
                n == Len(data)
            IN  /\ Max(0, i - 5) < i
                /\ i < Min(n, i + 5)
                /\ change_points[k].previous_score = RangeMean(Max(0, i - 5), i)
                /\ change_points[k].current_score = RangeMean(i, Min(n, i + 5))
                /\ ~IsNaN(change_points[k].previous_score)
                /\ ~IsNaN(change_points[k].current_score)

\* the same, of previous_score alone
C21_PreviousWindow ==
    op = "cusum" =>
        \A k \in 1..Len(change_points) :
            LET i == IndexOf(change_points[k])
            IN  /\ Max(0, i - 5) < i
                /\ change_points[k].previous_score = RangeMean(Max(0, i - 5), i)
                /\ ~IsNaN(change_points[k].previous_score)

----------------------------------------------------------------------------
(* Claims about the Z-score detector *)

\* the population variance of the samples at the Python indices a..(b - 1),
\* as the mean of the squares less the square of the mean
RangeVariance(a, b) ==
    LET m == RangeMean(a, b)
        squares == [j \in 1..(b - a) |-> RMul(SeriesValues[a + j], SeriesValues[a + j])]
    IN  RSub(Mean(squares), RMul(m, m))

\* |m_curr - m_prev| / s_prev > z_threshold, with s_prev > 0
ZQualifies(i, w, z_threshold) ==
    LET var == RangeVariance(i - w, i)
        diff == RSub(RangeMean(i, i + w), RangeMean(i - w, i))
    IN  /\ var.n > 0
        /\ \/ z_threshold.n < 0
           \/ RGt(RMul(diff, diff), RMul(RMul(z_threshold, z_threshold), var))

\* C22: the Z-score detector emits a change point at index i iff
\* window_size <= i < n - window_size, the previous window's stdev is not
\* below 1e-8 and |m_curr - m_prev| / s_prev > z_threshold; one point per
\* such index, in index order, 'increase' iff m_curr > m_prev.
C22_ZScoreEmitsIff ==
    op = "zscore" =>
        LET w == detector.window_size
            n == Len(data)
            qualifying == {i \in 0..(n - 1) :
                              /\ w <= i
                              /\ i < n - w
                              /\ ZQualifies(i, w, detector.z_threshold)}
        IN  /\ {IndexOf(change_points[k]) : k \in 1..Len(change_points)} = qualifying
            /\ Len(change_points) = Cardinality(qualifying)
            /\ \A k \in 1..Len(change_points) :
                   LET i == IndexOf(change_points[k])
                   IN  /\ change_points[k].previous_score = RangeMean(i - w, i)
                       /\ change_points[k].current_score = RangeMean(i, i + w)
                       /\ change_points[k].change_type = "increase"
                              <=> RGt(RangeMean(i, i + w), RangeMean(i - w, i))

InRange == detector.window_size..(Len(data) - detector.window_size - 1)

\* a point is emitted, and an index in range with a positive deviation
\* fails the positive threshold
C22_Witness ==
    /\ op = "zscore"
    /\ detector.z_threshold.n > 0
    /\ change_points # <<>>
    /\ \E i \in InRange :
           /\ RangeVariance(i - detector.window_size, i).n > 0
           /\ ~ZQualifies(i, detector.window_size, detector.z_threshold)

\* a point is emitted, and an index in range has a previous window of
\* zero deviation
C22_WitnessZeroDeviation ==
    /\ op = "zscore"
    /\ change_points # <<>>
    /\ detector.window_size > 1
    /\ \E i \in InRange : RangeVariance(i - detector.window_size, i).n = 0

----------------------------------------------------------------------------
(* Claims about the Bayesian detector's selection *)

\* the indices in [min_segment_length, n - min_segment_length) whose
\* posterior exceeds 2 * prior_probability
Candidates ==
    LET m == detector.min_segment_length
        n == Len(data)
        overall_var == RangeVariance(0, n)
    IN  {i \in m..(n - m - 1) :
            LET diff == RSub(RangeMean(i, i + m), RangeMean(i - m, i))
            IN  /\ overall_var.n > 0
                /\ RLt(detector.prior_prob, R(1, 2))
                /\ RGt(RMul(diff, diff),
                       RMul(LogOddsSq(detector.prior_prob), overall_var))}

Emitted == {IndexOf(change_points[k]) : k \in 1..Len(change_points)}

SetMin(S) == CHOOSE x \in S : \A y \in S : x <= y
SetMax(S) == CHOOSE x \in S : \A y \in S : x >= y

\* C23: the Bayesian detector emits only candidates, one point each and
\* in ascending order; the earliest candidate is emitted, and a later
\* candidate is emitted iff it lies at least min_segment_length after the
\* latest emitted index before it.
C23_GreedySelection ==
    (op = "bayesian" /\ detector.min_segment_length >= 1) =>
        /\ Emitted \subseteq Candidates
        /\ Len(change_points) = Cardinality(Emitted)
        /\ \A j, k \in 1..Len(change_points) :
               j < k => IndexOf(change_points[j]) < IndexOf(change_points[k])
        /\ \A c \in Candidates :
               IF c = SetMin(Candidates) THEN c \in Emitted
               ELSE LET before == {e \in Emitted : e < c}
                    IN  /\ before # {}
                        /\ c \in Emitted
                               <=> c - SetMax(before) >= detector.min_segment_length

\* a candidate is skipped for being too close to the emitted one before it
C23_Witness ==
    /\ op = "bayesian"
    /\ detector.min_segment_length = 2
    /\ Emitted # {}
    /\ \E c \in Candidates : c \notin Emitted

\* three candidates in a row are all emitted at spacing 1
C23_WitnessAdjacent ==
    /\ op = "bayesian"
    /\ detector.min_segment_length = 1
    /\ \E c \in Emitted : c + 1 \in Emitted /\ c + 2 \in Emitted
    /\ \E i \in 1..(Len(data) - 2) : i \notin Candidates

----------------------------------------------------------------------------
(* Claims about degenerate statistics *)

DetectorOps == {"simple", "cusum", "zscore", "bayesian"}

\* a list: a finite sequence of change point records
IsList(cps) ==
    /\ DOMAIN cps = 1..Len(cps)
    /\ \A k \in 1..Len(cps) :
           {"change_point", "previous_score", "current_score", "change_rate",
            "change_type"} \subseteq DOMAIN cps[k]

C24_WitnessBayesian ==
    /\ op = "bayesian"
    /\ ConstantSeries
    /\ Len(data) > 2 * detector.min_segment_length
    /\ change_points = <<>>

----------------------------------------------------------------------------
(* Claims about the classification of the trend *)

\* the least-squares slope of y against its index, as the covariance of
\* index and value over the variance of the index
LeastSquaresSlope(y) ==
    LET n == Len(y)
        x_bar == R(n - 1, 2)
        y_bar == Mean(y)
        cov == RSum([i \in 1..n |->
                       RMul(RSub(R(i - 1, 1), x_bar), RSub(y[i], y_bar))])
        var == RSum([i \in 1..n |->
                       RMul(RSub(R(i - 1, 1), x_bar), RSub(R(i - 1, 1), x_bar))])
    IN  RDiv(cov, var)

Classified(y) ==
    IF Len(y) < 2 THEN "stable"
    ELSE IF RGt(LeastSquaresSlope(y), R(One, 100)) THEN "increasing"
    ELSE IF RLt(LeastSquaresSlope(y), R(-One, 100)) THEN "decreasing"
    ELSE "stable"

AggregatedScores ==
    [i \in 1..Len(aggregated_df) |->
        RSub(aggregated_df[i].positive_score, aggregated_df[i].negative_score)]

\* C25: get_trend_direction is 'increasing' iff the least-squares slope
\* exceeds 0.01, 'decreasing' iff it is below -0.01 and 'stable' otherwise,
\* 'stable' too for fewer than 2 points; analyze_trend classifies the
\* slope of the aggregated windows' scores, taken in ascending window order.
C25_SlopeClassification ==
    /\ trend_direction # "none" => trend_direction = Classified(score_list)
    /\ (op = "analyze" /\ aggregated_df # <<>>) =>
           /\ \A i \in 1..(Len(aggregated_df) - 1) :
                  aggregated_df[i].analyzed_at < aggregated_df[i + 1].analyzed_at
           /\ trend_result.trend_direction = Classified(AggregatedScores)

\* a slope of exactly 0.01 or -0.01 over three or more points
C25_Witness ==
    /\ Len(score_list) >= 3
    /\ RAbs(LeastSquaresSlope(score_list)) = R(One, 100)
    /\ trend_direction = "stable"

\* analyze_trend on items given in descending time order finds a falling trend
C25_WitnessAnalysis ==
    /\ op = "analyze"
    /\ Len(data) >= 2
    /\ \A i \in 1..(Len(data) - 1) : data[i].analyzed_at > data[i + 1].analyzed_at
    /\ Len(aggregated_df) >= 2
    /\ trend_result.trend_direction = "decreasing"

----------------------------------------------------------------------------
(* The scalarizations side by side: a triple is chosen, then each of the   *)
(* five functions is applied to it.                                        *)

\* the values a component of the triple takes (in tenths): inside [0, 1],
\* its ends, and outside it
ComponentValues == {-5, 0, 3, 7, 10, 15}

Scalarizations == {"analyzer", "simple", "cusum", "zscore", "bayesian"}

ChooseTriple ==
    /\ triple = <<>>
    /\ \E positive, negative, neutral \in ComponentValues :
           triple' = <<R(positive, 1), R(negative, 1), R(neutral, 1)>>
    /\ UNCHANGED <<trend, scalars, retry, collection, dedup>>

ScalarizeWith(f, returned) ==
    /\ triple # <<>>
    /\ f \notin DOMAIN scalars
    /\ scalars' = scalars @@ (f :> returned)
    /\ UNCHANGED <<trend, triple, retry, collection, dedup>>

AnalyzerScalarize ==
    ScalarizeWith("analyzer",
                  AnalyzerCalculateSentimentScore(triple[1], triple[2], triple[3]))

SimpleScalarize ==
    ScalarizeWith("simple", CalculateSentimentScore(triple[1], triple[2], triple[3]))

CusumScalarize ==
    ScalarizeWith("cusum",
                  CusumCalculateSentimentScore(triple[1], triple[2], triple[3]))

ZScoreScalarize ==
    ScalarizeWith("zscore",
                  ZScoreCalculateSentimentScore(triple[1], triple[2], triple[3]))

BayesianScalarize ==
    ScalarizeWith("bayesian",
                  BayesianCalculateSentimentScore(triple[1], triple[2], triple[3]))

NextScalar ==
    \/ ChooseTriple
    \/ AnalyzerScalarize
    \/ SimpleScalarize
    \/ CusumScalarize
    \/ ZScoreScalarize
    \/ BayesianScalarize

SpecScalar == Init /\ [][NextScalar]_vars

Scalarized == DOMAIN scalars

InUnitInterval(x) == RGe(x, R(0, 1)) /\ RLe(x, R(One, 1))

\* C26: every scalarization returns positive - negative, so all agree; the
\* result is in [-1, 1] when positive and negative are in [0, 1];
\* scalarize(1,0,0) = 1, scalarize(0,1,0) = -1, scalarize(0,0,1) = 0.
C26_ScalarizationsAgree ==
    \A f \in Scalarized :
        /\ scalars[f] = RSub(triple[1], triple[2])
        /\ \A g \in Scalarized : scalars[f] = scalars[g]
        /\ (InUnitInterval(triple[1]) /\ InUnitInterval(triple[2])) =>
               RGe(scalars[f], R(-One, 1)) /\ RLe(scalars[f], R(One, 1))
        /\ triple = <<R(One, 1), R(0, 1), R(0, 1)>> => scalars[f] = R(One, 1)
        /\ triple = <<R(0, 1), R(One, 1), R(0, 1)>> => scalars[f] = R(-One, 1)
        /\ triple = <<R(0, 1), R(0, 1), R(One, 1)>> => scalars[f] = R(0, 1)

\* all five have run on a triple of three different non-zero components
C26_Witness ==
    /\ Scalarized = Scalarizations
    /\ triple = <<R(7, 1), R(3, 1), R(15, 1)>>
    /\ scalars["cusum"] = R(4, 1)

\* all five have run on the triple (0, 0, 1)
C26_WitnessNeutral ==
    /\ Scalarized = Scalarizations
    /\ triple = <<R(0, 1), R(0, 1), R(One, 1)>>
    /\ scalars["analyzer"] = R(0, 1)

----------------------------------------------------------------------------
(* RateLimiter.retry_with_backoff: a call with some max_retries; each pass *)
(* of its loop invokes func, which returns or raises; after the loop the   *)
(* method raises last_exception.                                           *)

MaxRetries == 4     \* largest max_retries

\* what an invocation of func raises: an Exception whose text names a rate
\* limit or a quota, any other Exception, or a BaseException that is not an
\* Exception (KeyboardInterrupt, SystemExit)
ExceptionKinds == {"rate limit", "error", "base"}

\* the exception object raised by the invocation number `by`
Raised(kind, by) == [kind |-> kind, by |-> by]

\* the value returned by the invocation number `by`
Returned(by) == [kind |-> "returned", by |-> by]

None == [kind |-> "None", by |-> 0]

\* raise None
TypeError == [kind |-> "TypeError", by |-> 0]

\* limiter.retry_with_backoff(func): last_exception = None, the loop is entered
RetryWithBackoff ==
    /\ retry.pc = "idle"
    /\ \E max_retries \in 0..MaxRetries :
           retry' = [pc |-> "loop",
                     max_retries |-> max_retries,
                     attempt |-> 0,
                     last_exception |-> None,
                     invoked |-> <<>>,
                     sleeps |-> {},
                     outcome |-> None]
    /\ UNCHANGED <<trend, triple, scalars, collection, dedup>>

\* a pass of the loop in which func returns: its value is returned
InvokeReturns ==
    /\ retry.pc = "loop"
    /\ retry.attempt < retry.max_retries
    /\ LET value == Returned(Len(retry.invoked) + 1)
       IN  retry' = [retry EXCEPT !.pc = "returned",
                                  !.invoked = Append(@, value),
                                  !.outcome = value]
    /\ UNCHANGED <<trend, triple, scalars, collection, dedup>>

\* raise last_exception; raise None is a TypeError
RaiseAfterLoop(last_exception, invoked) ==
    IF last_exception = None THEN TypeError ELSE last_exception

\* a pass of the loop in which func raises: an Exception is kept in
\* last_exception, and unless this was the last pass the method sleeps;
\* anything else propagates
InvokeRaises ==
    /\ retry.pc = "loop"
    /\ retry.attempt < retry.max_retries
    /\ \E kind \in ExceptionKinds :
           LET e == Raised(kind, Len(retry.invoked) + 1)
           IN  IF kind = "base"
               THEN retry' = [retry EXCEPT !.pc = "raised",
                                           !.invoked = Append(@, e),
                                           !.outcome = e]
               ELSE retry' = [retry EXCEPT
                                  !.invoked = Append(@, e),
                                  !.last_exception = e,
                                  !.sleeps = IF retry.attempt < retry.max_retries - 1
                                             THEN @ \cup {retry.attempt}
                                             ELSE @,
                                  !.attempt = @ + 1]
    /\ UNCHANGED <<trend, triple, scalars, collection, dedup>>

\* the loop is over
LoopExhausted ==
    /\ retry.pc = "loop"
    /\ retry.attempt >= retry.max_retries
    /\ retry' = [retry EXCEPT !.pc = "raised",
                              !.outcome = RaiseAfterLoop(retry.last_exception,
                                                         retry.invoked)]
    /\ UNCHANGED <<trend, triple, scalars, collection, dedup>>

NextRetry == RetryWithBackoff \/ InvokeReturns \/ InvokeRaises \/ LoopExhausted

SpecRetry == Init /\ [][NextRetry]_vars

\* C27: for any max_retries >= 0, func is invoked at most max_retries
\* times; an invocation that returns is the last one and its value is
\* returned; when the method raises it raises what the last invocation
\* raised; it has slept once after each failed invocation that is
\* followed by another attempt, and not after the final one.
C27_RetryContract ==
    retry.pc # "idle" =>
        LET n == Len(retry.invoked)
        IN  /\ n <= retry.max_retries
            /\ \A i \in 1..n :
                   retry.invoked[i].kind = "returned" =>
                       /\ i = n
                       /\ retry.pc = "returned"
                       /\ retry.outcome = Returned(i)
            /\ retry.pc = "raised" =>
                   /\ n >= 1
                   /\ retry.invoked[n].kind # "returned"
                   /\ retry.outcome = retry.invoked[n]
            /\ retry.sleeps =
                   {i - 1 : i \in {j \in 1..n : /\ retry.invoked[j].kind
                                                    \in {"rate limit", "error"}
                                                /\ j < retry.max_retries}}

\* the same, of the calls with max_retries >= 1
C27_AtLeastOneAttempt ==
    (retry.pc # "idle" /\ retry.max_retries >= 1) => C27_RetryContract

\* a call in progress ends: it returns or raises
C27_Terminates == (retry.pc = "loop") ~> (retry.pc \in {"returned", "raised"})

FairRetry == SpecRetry /\ WF_vars(InvokeReturns \/ InvokeRaises) /\ WF_vars(LoopExhausted)

----------------------------------------------------------------------------
(* Data collection: run_data_collection, or collect_all called directly,   *)
(* on a CollectorManager whose configuration enables some collectors.      *)
(* collect_all takes its session from next(get_db()); the generator that   *)
(* yielded it is referenced by nothing and is finalized when the runtime   *)
(* collects it, which closes the session (db_manager.get_db's finally).    *)

\* the sources run_data_collection accepts, in the order __init__ creates
\* their collectors
SourceOrder == <<"youtube", "twitter", "news", "blog">>
ValidSources == {SourceOrder[i] : i \in 1..Len(SourceOrder)}

\* the sources arguments tried
SourceArguments ==
    {{}, {"reddit"}, {"youtube"}, {"news"}, {"youtube", "news"}, {"reddit", "blog"}}

\* self.collectors: the enabled sources, in SourceOrder
RECURSIVE CollectorsOf(_, _)
CollectorsOf(enabled, i) ==
    IF i > Len(SourceOrder) THEN <<>>
    ELSE (IF SourceOrder[i] \in enabled THEN <<SourceOrder[i]>> ELSE <<>>)
         \o CollectorsOf(enabled, i + 1)

\* what collector.collect returns: no item, or an item of its source
CollectedLists(source_name) == {<<>>, <<[source |-> source_name]>>}

\* CollectorManager.collect_all is entered: all_results = [], and with
\* save_to_database the session is taken from a fresh get_db() generator
EnterCollectAll(via, sources, collectors, save_to_database) ==
    [pc |-> "collect",
     via |-> via,
     sources |-> sources,
     collectors |-> collectors,
     save_to_database |-> save_to_database,
     next |-> 1,
     results |-> <<>>,
     collected |-> <<>>,
     saved |-> <<>>,
     all_results |-> <<>>,
     generator |-> IF save_to_database THEN "suspended" ELSE "none",
     opened |-> IF save_to_database THEN 1 ELSE 0,
     closes |-> 0,
     closes_at_return |-> 0,
     rollbacks |-> 0,
     returned |-> [kind |-> "none"]]

\* what is returned: run_data_collection's (success, count), collect_all's list
Pair(success, count) == [kind |-> "pair", success |-> success, count |-> count]
List(items) == [kind |-> "list", items |-> items]

\* run_data_collection returns without calling collect_all
ReturnFailure(sources, collectors) ==
    [EnterCollectAll("run_data_collection", sources, collectors, FALSE)
         EXCEPT !.pc = "returned", !.returned = Pair(FALSE, 0)]

\* run_data_collection(keyword, sources, max_results): the manager is
\* constructed (which may raise), the sources are filtered, collect_all runs
RunDataCollection ==
    /\ collection.pc = "idle"
    /\ \E sources \in SourceArguments, enabled \in SUBSET ValidSources,
          constructed \in BOOLEAN :
           LET enabled_sources == {src \in sources : src \in ValidSources}
               collectors == CollectorsOf(enabled, 1)
           IN  collection' =
                   IF ~constructed \/ enabled_sources = {}
                   THEN ReturnFailure(sources, IF constructed THEN collectors ELSE <<>>)
                   ELSE EnterCollectAll("run_data_collection", sources,
                                        collectors, TRUE)
    /\ UNCHANGED <<trend, triple, scalars, retry, dedup>>

\* collector_manager.collect_all(keyword, n, save_to_database)
CollectAll ==
    /\ collection.pc = "idle"
    /\ \E enabled \in SUBSET ValidSources, save_to_database \in BOOLEAN :
           collection' = EnterCollectAll("collect_all", ValidSources,
                                         CollectorsOf(enabled, 1), save_to_database)
    /\ UNCHANGED <<trend, triple, scalars, retry, dedup>>

\* the unreferenced generator is finalized: GeneratorExit at its yield,
\* and its finally clause closes the session
FinalizeGenerator ==
    /\ collection.pc # "idle"
    /\ collection.generator = "suspended"
    /\ collection' = [collection EXCEPT !.generator = "finalized",
                                        !.closes = @ + 1]
    /\ UNCHANGED <<trend, triple, scalars, retry, dedup>>

\* the loop reaches a collector: collector.collect returns a list or raises
CollectStep ==
    /\ collection.pc = "collect"
    /\ collection.next <= Len(collection.collectors)
    /\ LET source_name == collection.collectors[collection.next]
       IN  \/ \E list \in CollectedLists(source_name) :
                  collection' = [collection EXCEPT
                                     !.collected = Append(@, source_name),
                                     !.results = list,
                                     !.pc = "save"]
           \/ collection' = [collection EXCEPT
                                 !.collected = Append(@, source_name),
                                 !.pc = "except"]
    /\ UNCHANGED <<trend, triple, scalars, retry, dedup>>

\* save_to_db, when saving, returns or raises; then all_results.extend(results)
SaveStep ==
    /\ collection.pc = "save"
    /\ LET source_name == collection.collectors[collection.next]
           extended == [collection EXCEPT
                            !.all_results = @ \o collection.results,
                            !.next = @ + 1,
                            !.pc = "collect"]
       IN  IF collection.save_to_database /\ collection.opened = 1
           THEN \/ collection' = [extended EXCEPT !.saved = Append(@, source_name)]
                \/ collection' = [collection EXCEPT
                                      !.saved = Append(@, source_name),
                                      !.pc = "except"]
           ELSE collection' = extended
    /\ UNCHANGED <<trend, triple, scalars, retry, dedup>>

\* except Exception: the session is rolled back
ExceptStep ==
    /\ collection.pc = "except"
    /\ collection' = [collection EXCEPT
                          !.rollbacks = IF collection.opened = 1 THEN @ + 1 ELSE @,
                          !.pc = "finally"]
    /\ UNCHANGED <<trend, triple, scalars, retry, dedup>>

\* the loop is over
LoopDone ==
    /\ collection.pc = "collect"
    /\ collection.next > Len(collection.collectors)
    /\ collection' = [collection EXCEPT !.pc = "finally"]
    /\ UNCHANGED <<trend, triple, scalars, retry, dedup>>

\* finally: the session is closed; return all_results, of which
\* run_data_collection returns (True, len)
FinallyStep ==
    /\ collection.pc = "finally"
    /\ LET closes == IF collection.opened = 1 THEN collection.closes + 1
                     ELSE collection.closes
       IN  collection' = [collection EXCEPT
                              !.closes = closes,
                              !.closes_at_return = closes,
                              !.pc = "returned",
                              !.returned =
                                  IF collection.via = "run_data_collection"
                                  THEN Pair(TRUE, Len(collection.all_results))
                                  ELSE List(collection.all_results)]
    /\ UNCHANGED <<trend, triple, scalars, retry, dedup>>

NextCollection ==
    \/ RunDataCollection
    \/ CollectAll
    \/ FinalizeGenerator
    \/ CollectStep
    \/ SaveStep
    \/ ExceptStep
    \/ LoopDone
    \/ FinallyStep

SpecCollection == Init /\ [][NextCollection]_vars

Elements(seq) == {seq[i] : i \in 1..Len(seq)}

\* C28: run_data_collection collects and stores only from the sources in
\* its sources argument: a collector enabled in the configuration whose
\* source is not in sources is never invoked; with no valid source nothing
\* is collected and (False, 0) is returned.
C28_OnlySelectedSources ==
    (collection.pc # "idle" /\ collection.via = "run_data_collection") =>
        /\ Elements(collection.collected) \subseteq collection.sources
        /\ Elements(collection.saved) \subseteq collection.sources
        /\ collection.sources \cap ValidSources = {} =>
               /\ collection.collected = <<>>
               /\ collection.pc = "returned"
               /\ collection.returned = Pair(FALSE, 0)

\* the same, of the calls that select no valid source
C28_NoValidSource ==
    (/\ collection.pc # "idle"
     /\ collection.via = "run_data_collection"
     /\ collection.sources \cap ValidSources = {}) => C28_OnlySelectedSources

\* collect_all was called
EnteredCollectAll ==
    ~(collection.returned.kind = "pair" /\ ~collection.returned.success)

Failed == collection.rollbacks > 0 \/ collection.pc = "except"

\* the items of the collectors that completed, in order
RECURSIVE ItemsOf(_)
ItemsOf(items) ==
    IF items = <<>> THEN <<>>
    ELSE <<items[1].source>> \o ItemsOf(Tail(items))

\* what collect_all does with an exception of collect or save_to_db: it
\* is not propagated, the session is rolled back, no further collector is
\* invoked, and what is returned is what the completed collectors gave
HandlesFailure ==
    /\ collection.pc \in {"collect", "save", "except", "finally", "returned"}
    /\ collection.pc = "returned" =>
           /\ collection.returned =
                  IF collection.via = "run_data_collection"
                  THEN Pair(TRUE, Len(collection.all_results))
                  ELSE List(collection.all_results)
           /\ Elements(ItemsOf(collection.all_results))
                  \subseteq Elements(SubSeq(collection.collected, 1,
                                            collection.next - 1))
    /\ (collection.pc \in {"finally", "returned"} /\ Failed) =>
           /\ collection.rollbacks = collection.opened
           /\ collection.next <= Len(collection.collectors)
           /\ Len(collection.collected) = collection.next

\* C29: collect_all never propagates an exception of collect or
\* save_to_db: it rolls the session back, invokes no further collector
\* and returns the results of the collectors that completed before; on
\* every path the session opened at the start has been closed exactly once
\* when the function returns.
C29_CollectAllContract ==
    (collection.pc # "idle" /\ EnteredCollectAll) =>
        /\ HandlesFailure
        /\ collection.pc = "returned" =>
               collection.closes_at_return = collection.opened

\* the same, but for the number of times the session is closed
C29_FailureHandling ==
    (collection.pc # "idle" /\ EnteredCollectAll) => HandlesFailure

----------------------------------------------------------------------------
(* Deduplicator.remove_duplicates: a list of items is built, the function  *)
(* runs on it, and runs again on what it returned.                         *)

MaxItems == 4       \* longest data_list

\* two different texts of the same MD5 digest
CollidingTextA == "TEXTCOLLBYfGiJUETHQ4hAcKSMd5zYpgqf1YRDhkmxHkhPWptrkoyz28wnI9V0aHeAuaKnak"
CollidingTextB == "TEXTCOLLBYfGiJUETHQ4hEcKSMd5zYpgqf1YRDhkmxHkhPWptrkoyz28wnI9V0aHeAuaKnak"

\* the texts of the items; "" is the empty text
Texts == {"", "a", "b", CollidingTextA, CollidingTextB}

\* hashlib.md5(text.encode('utf-8')).hexdigest()
ComputeHash(text) ==
    CASE text = "a" -> "0cc175b9c0f1b6a831c399e269772661"
      [] text = "b" -> "92eb5ffee6ae2fec3ad71c777531578f"
      [] text = "" -> "d41d8cd98f00b204e9800998ecf8427e"
      [] text = CollidingTextA -> "faad49866e9498fc1719f5289e7a0269"
      [] text = CollidingTextB -> "faad49866e9498fc1719f5289e7a0269"

\* item.get(key_field, "")
GetText(item) == IF "text" \in DOMAIN item THEN item.text ELSE ""

RECURSIVE RemoveLoop(_, _)
RemoveLoop(data_list, seen_hashes) ==
    IF data_list = <<>> THEN <<>>
    ELSE LET item == Head(data_list)
             text == GetText(item)
         IN  IF text = "" THEN RemoveLoop(Tail(data_list), seen_hashes)
             ELSE IF ComputeHash(text) \notin seen_hashes
             THEN <<item>> \o RemoveLoop(Tail(data_list),
                                         seen_hashes \cup {ComputeHash(text)})
             ELSE RemoveLoop(Tail(data_list), seen_hashes)

\* Deduplicator.remove_duplicates(data_list)
RemoveDuplicates(data_list) == RemoveLoop(data_list, {})

\* an item is appended to the list: with a text, or without the key field;
\* id stands for its other fields
AppendItem ==
    /\ dedup.pc \in {"idle", "building"}
    /\ LET data_list == IF dedup.pc = "idle" THEN <<>> ELSE dedup.data_list
           id == Len(data_list) + 1
       IN  /\ id <= MaxItems
           /\ \/ \E text \in Texts :
                     dedup' = [pc |-> "building",
                               data_list |-> Append(data_list,
                                                    [id |-> id, text |-> text])]
              \/ dedup' = [pc |-> "building",
                           data_list |-> Append(data_list, [id |-> id])]
    /\ UNCHANGED <<trend, triple, scalars, retry, collection>>

RemoveDuplicatesOnce ==
    /\ dedup.pc = "building"
    /\ dedup' = [pc |-> "once",
                 data_list |-> dedup.data_list,
                 unique_data |-> RemoveDuplicates(dedup.data_list)]
    /\ UNCHANGED <<trend, triple, scalars, retry, collection>>

RemoveDuplicatesAgain ==
    /\ dedup.pc = "once"
    /\ dedup' = [pc |-> "twice",
                 data_list |-> dedup.data_list,
                 unique_data |-> dedup.unique_data,
                 again |-> RemoveDuplicates(dedup.unique_data)]
    /\ UNCHANGED <<trend, triple, scalars, retry, collection>>

NextDedup == AppendItem \/ RemoveDuplicatesOnce \/ RemoveDuplicatesAgain

SpecDedup == Init /\ [][NextDedup]_vars

\* the positions of the first occurrence of each non-empty text
FirstOccurrences(list) ==
    {i \in 1..Len(list) :
        /\ GetText(list[i]) # ""
        /\ \A j \in 1..(i - 1) : GetText(list[j]) # GetText(list[i])}

\* the items of list at the positions in K, in order
RECURSIVE ItemsAt(_, _, _)
ItemsAt(list, K, i) ==
    IF i > Len(list) THEN <<>>
    ELSE (IF i \in K THEN <<list[i]>> ELSE <<>>) \o ItemsAt(list, K, i + 1)

KeepsFirstOfEachText ==
    /\ dedup.unique_data
           = ItemsAt(dedup.data_list, FirstOccurrences(dedup.data_list), 1)
    /\ \A i, j \in 1..Len(dedup.unique_data) :
           i # j => GetText(dedup.unique_data[i]) # GetText(dedup.unique_data[j])
    /\ dedup.pc = "twice" => dedup.again = dedup.unique_data

\* C30: remove_duplicates returns the sub-sequence of its input made of the
\* first occurrence of each distinct non-empty text, in input order, items
\* with a missing or empty text dropped, no two kept items with the same
\* text; applying it twice gives the same as applying it once.
C30_KeepsFirstOfEachText ==
    dedup.pc \in {"once", "twice"} => KeepsFirstOfEachText

\* no two different texts of the input have the same digest
NoCollision ==
    \A i, j \in 1..Len(dedup.data_list) :
        LET a == GetText(dedup.data_list[i])
            b == GetText(dedup.data_list[j])
        IN  (a # "" /\ b # "" /\ a # b) => ComputeHash(a) # ComputeHash(b)

\* the same, of the inputs whose texts have different digests
C30_WithoutCollision ==
    (dedup.pc \in {"once", "twice"} /\ NoCollision) => KeepsFirstOfEachText

====
